---------------------------- MODULE Spec2Model ----------------------------
(***************************************************************************)
(* A model of the SQL Server replication managers of this repository.      *)
(*                                                                         *)
(*  Spec       the sync cycles of EnhancedSQLServerReplicationManager      *)
(*             (src/enhanced_replication_manager.py) with one replica      *)
(*             configured, under concurrent writers of the primary: per    *)
(*             table the worker fetches from the primary, stages into a    *)
(*             temporary table and merges.                                 *)
(*  FanSpec    the same cycles with two replicas configured: the           *)
(*             coordinating thread fans out one worker per replica.        *)
(*  RetrySpec  one call of EnhancedReplicationManager                      *)
(*             .execute_query_with_retry (src/raw_replication_manager.py)  *)
(*             over the pooled connection of one endpoint.                 *)
(*  SetupSpec  the worker threads of _setup_replicas_parallel              *)
(*             (src/raw_replication_manager.py) over the shared            *)
(*             connection pool.                                            *)
(*  ExecSpec   the thread pool of one _sync_all_replicas call, for any     *)
(*             number of configured replicas.                              *)
(*  LoopSpec   start() of EnhancedSQLServerReplicationManager: startup,    *)
(*             the main loop and the health-check loop under the running   *)
(*             flag; LoopLiveSpec adds the fairness of the two threads.    *)
(*  ConfigSpec the cycles of Spec for a configuration whose incremental    *)
(*             table may lack its timestamp column.                        *)
(*  CycleSpec  consecutive cycles of one replica; CycleLiveSpec adds the   *)
(*             fairness of the coordinator and the worker.                 *)
(*  BootSpec   _setup_replica_database of the enhanced manager, run twice  *)
(*             on one replica.                                             *)
(*  TablesSpec _process_tables_and_articles of the pooled manager over two *)
(*             tables and two replicas.                                    *)
(*  ReloadSpec the configuration reload of the pooled manager's monitoring *)
(*             thread against the reads of an execute_query_with_retry.    *)
(*  FirstSyncSpec the cycles of Spec on a primary table that may hold a    *)
(*             row whose timestamp is NULL.                                *)
(*  StageSpec  the staging loop of _merge_data for any DataFrame and       *)
(*             batch_size.                                                 *)
(*  BuildSpec  build_create_table_script of the pooled manager, called     *)
(*             twice on the same arguments.                                *)
(*  FkSpec     build_fk_script of the pooled manager on one row.           *)
(*  SkipSpec   the bootstrap and the cycles of a configuration with a      *)
(*             table whose replicate flag is false.                        *)
(***************************************************************************)
EXTENDS Integers, Sequences, FiniteSets, TLC

(***************************************************************************)
(* Bounds of the model.                                                    *)
(***************************************************************************)
MaxKey == 2          \* primary-key values are 1..MaxKey
MaxTime == 3         \* the clock (in ticks) stops at MaxTime
MaxTicks == 1        \* sync cycles the scheduler runs
TicksPerMs == 2      \* clock ticks per millisecond (the clock is finer than 1 ms)
MaxCycles == 2       \* iterations of the main loop of start()
MaxElapsed == 3      \* a sync cycle takes 0..MaxElapsed seconds
MaxInterval == 2     \* sync_interval_seconds ranges over 1..MaxInterval
MaxReplicas == 5     \* replica_databases has 0..MaxReplicas entries (thread pool)
MaxRetry == 3        \* retry_attempts ranges over 0..MaxRetry

(***************************************************************************)
(* Configuration: replicas, units (schema.table), their sync policy.       *)
(***************************************************************************)
Replicas == {"r1", "r2"}
Hosts == {"h1", "h2"}
Ports == {3434, 3435}

\* the tables of schemas_to_replicate, in config order
UnitOrder == <<"u1", "u2">>
Units == {UnitOrder[i] : i \in 1..Len(UnitOrder)}

\* schemas_to_replicate of the deployment: u1 is synchronized incrementally
\* on its timestamp column, u2 in full
DefaultSchemas ==
    {[u \in Units |-> IF u = "u1"
                      THEN [sync_mode |-> "incremental", timestamp_column |-> "ts",
                            replicate |-> TRUE]
                      ELSE [sync_mode |-> "full", timestamp_column |-> "",
                            replicate |-> TRUE]]}

\* the same with or without the optional timestamp_column of u1
OptionalTimestampSchemas ==
    {[u \in Units |-> IF u = "u1"
                      THEN [sync_mode |-> "incremental", timestamp_column |-> c,
                            replicate |-> TRUE]
                      ELSE [sync_mode |-> "full", timestamp_column |-> "",
                            replicate |-> TRUE]] :
        c \in {"ts", ""}}

\* the same with replicate = false for u2
SkippedUnitSchemas ==
    {[u \in Units |-> IF u = "u1"
                      THEN [sync_mode |-> "incremental", timestamp_column |-> "ts",
                            replicate |-> TRUE]
                      ELSE [sync_mode |-> "full", timestamp_column |-> "",
                            replicate |-> FALSE]]}

\* COLUMNPROPERTY(..., primary_key, 'IsIdentity') = 1 on the replica table
IsIdentity(u) == u = "u1"

\* replication.batch_size
batch_size == 1

\* datetime.min, the default of last_sync_times.get
DatetimeMin == 0

\* Python's None, SQL's NULL
None == -1

Keys == 1..MaxKey
Times == 0..(MaxTime + 1)
Row(k, v, ts) == [k |-> k, v |-> v, ts |-> ts]
Rows == [k : Keys, v : Times, ts : Times]

KeysOf(T) == {x.k : x \in T}

(***************************************************************************)
(* State.                                                                  *)
(***************************************************************************)
VARIABLES
    replica_configs,   \* configured replica -> [host, port] (self.replica_configs)
    schemas,           \* unit -> [sync_mode, timestamp_column] (self.schemas)
    primary,           \* unit -> set of rows           (the primary's tables)
    replica,           \* replica -> unit -> set of rows (the replicas' tables)
    now,               \* the clock, in ticks
    last_sync_times,   \* <<unit, host>> -> watermark   (self.last_sync_times)
    phase,             \* "idle" | "running": _sync_all_replicas in progress
    ticks,             \* completed sync cycles
    pc,                \* replica -> position of its worker (_sync_replica)
    cur,               \* replica -> index in UnitOrder of the table in hand
    outcome,           \* replica -> unit -> what the log says of this cycle:
                       \*   "pending" | "done" | "failed" | "merge_failed" |
                       \*   "setup_failed"
    data,              \* replica -> the fetched batch (master_data)
    staged,            \* replica -> rows inserted into the temporary table
    has_identity,      \* replica -> local has_identity of _merge_data
    identity_insert,   \* replica -> IDENTITY_INSERT is ON in the merge session
    temp_table,        \* replica -> the merge session holds #<table>_temp
    merge_issued,      \* replica -> a MERGE statement was sent in this attempt
    rx,                \* the state of one execute_query_with_retry call
    sp,                \* the workers of _setup_replicas_parallel and the pool
    tp,                \* the thread pool of one _sync_all_replicas call
    mg,                \* start(): the main thread and the health-check thread
    bs,                \* _setup_replica_database on one replica, run twice
    pt,                \* _process_tables_and_articles of the pooled manager
    cf,                \* self.config of the pooled manager: its reloads and
                       \* the reads of one execute_query_with_retry call
    fn                 \* one call of a function that only computes: its
                       \* arguments, its progress and what it returned

syncVars == <<replica_configs, schemas, primary, replica, now, last_sync_times, phase,
              ticks, pc, cur, outcome, data, staged, has_identity,
              identity_insert, temp_table, merge_issued>>
aux == <<rx, sp, tp, mg, bs, pt, cf, fn>>

\* what the steps of one part of the model leave unchanged
othersRx == <<syncVars, sp, tp, mg, bs, pt, cf, fn>>
othersSp == <<syncVars, rx, tp, mg, bs, pt, cf, fn>>
othersTp == <<syncVars, rx, sp, mg, bs, pt, cf, fn>>
othersMg == <<syncVars, rx, sp, tp, bs, pt, cf, fn>>
othersBs == <<syncVars, rx, sp, tp, mg, pt, cf, fn>>
othersPt == <<syncVars, rx, sp, tp, mg, bs, cf, fn>>
othersCf == <<syncVars, rx, sp, tp, mg, bs, pt, fn>>
othersFn == <<syncVars, rx, sp, tp, mg, bs, pt, cf>>

vars == <<syncVars, aux>>


(***************************************************************************)
(* Pure helpers of the sync engine.                                        *)
(***************************************************************************)
\* TableConfig.sync_mode
SyncMode(u) == schemas[u].sync_mode

\* a loop that hands every table to _sync_table
ReplicatedAlways(u) == TRUE

\* table_config.replicate
Replicated(u) == schemas[u].replicate

\* TableConfig.timestamp_column is set (`if not table_config.timestamp_column`)
HasTimestampColumn(u) == schemas[u].timestamp_column # ""

\* _sync_table_incremental: table_key = schema.table.replica_host
TableKey(u, r) == <<u, replica_configs[r].host>>

\* last_sync.strftime('%Y-%m-%d %H:%M:%S.%f')[:-3]: cut to whole milliseconds
FormatTimestamp(t) == t - (t % TicksPerMs)

\* the watermark the next incremental fetch of (u, r) reads
Watermark(u, r) == last_sync_times[TableKey(u, r)]

\* _get_table_data: SELECT * FROM t [WHERE ts > '<watermark>']; the comparison
\* of a NULL timestamp is not true
WhereClause(x, wm) == x.ts # None /\ x.ts > FormatTimestamp(wm)
SelectAll(u) == primary[u]
SelectSince(u, wm) == {x \in primary[u] : WhereClause(x, wm)}

\* a result set as the ordered rows of the DataFrame (clustered-key order)
RECURSIVE SeqOf(_)
SeqOf(S) ==
    IF S = {} THEN <<>>
    ELSE LET m == CHOOSE x \in S : \A y \in S : x.k <= y.k
         IN  <<m>> \o SeqOf(S \ {m})

RowsOf(q) == {q[i] : i \in 1..Len(q)}

Min(a, b) == IF a < b THEN a ELSE b

\* data_tuples[i:i + size]
Slice(d, i, size) == SubSeq(d, i + 1, Min(i + size, Len(d)))

\* data_tuples[i:i + batch_size] with i = number of rows already staged
NextBatch(d, i) == Slice(d, i, batch_size)

\* the MERGE statement with the DELETE clause: a mutant of MergeResult
MergeResultDeleting(target, source) == source

\* the MERGE statement without WHEN MATCHED: a mutant of MergeResult
MergeResultInsertOnly(target, source) ==
    target \cup {s \in source : \A t \in target : t.k # s.k}

\* MERGE target USING source ON target.pk = source.pk
\*   WHEN MATCHED THEN UPDATE SET every non-key column
\*   WHEN NOT MATCHED BY TARGET THEN INSERT
MergeResult(target, source) ==
    LET matched  == {t \in target : \E s \in source : s.k = t.k}
        updated  == {Row(t.k, s.v, s.ts) :
                        <<t, s>> \in {p \in matched \X source : p[1].k = p[2].k}}
        inserted == {s \in source : \A t \in target : t.k # s.k}
    IN  (target \ matched) \cup updated \cup inserted

\* the loop over the batches left after its first slice: a mutant of AllStaged
AllStagedAfterFirstBatch(d, st) == TRUE

\* `for i in range(0, len(data_tuples), batch_size)` is exhausted: st holds
\* every row of d
AllStaged(d, st) == Len(st) >= Len(d)

\* `if not master_data.empty` skipped: a mutant of NeedsMerge
NeedsMergeAlways(d) == TRUE

\* _sync_table_incremental / _sync_table_full: `if not master_data.empty`
NeedsMerge(d) == d # <<>>

\* the table after this one in _sync_replica's loops, or the end of the loops
NextUnitPc(i) == IF i < Len(UnitOrder) THEN "check" ELSE "finished"

\* _sync_table re-raising instead of logging: a mutant of PcAfterSyncTableError
PcAfterErrorPropagates(i) == "finished"

\* _sync_table: `except Exception` logs and returns, the loop goes on
PcAfterSyncTableError(i) == NextUnitPc(i)

MergePcs == {"connect", "identity", "create_temp", "insert", "merge", "drop",
             "identity_off"}

CurUnit(r) == UnitOrder[cur[r]]

(***************************************************************************)
(* Initial state: after __init__ and the bootstrap of start().             *)
(***************************************************************************)
\* replica_databases with one entry
OneReplica == {[r \in {"r1"} |-> [host |-> "h1", port |-> 3434]]}

\* replica_databases with two entries, distinct endpoints: r2 shares the host
\* of r1 (on another port) or sits on another host
TwoReplicas ==
    {c \in [Replicas -> [host : Hosts, port : Ports]] :
        /\ c["r1"] = [host |-> "h1", port |-> 3434]
        /\ c["r2"] \in {[host |-> "h1", port |-> 3435], [host |-> "h2", port |-> 3434]}}

Configured == DOMAIN replica_configs

WatermarkKeys == Units \X Hosts

\* the parts of the model that a specification leaves out stay off
rxIdle == [pc |-> "off"]
spIdle == [pc |-> "off"]
tpIdle == [pc |-> "off"]
mgIdle == [pc |-> "off"]
bsIdle == [pc |-> "off"]
ptIdle == [pc |-> "off"]
cfIdle == [pc |-> "off"]
fnIdle == [pc |-> "off"]

\* every part but the sync engine is off
AuxIdle ==
    /\ rx = rxIdle /\ sp = spIdle /\ tp = tpIdle
    /\ mg = mgIdle /\ bs = bsIdle /\ pt = ptIdle /\ cf = cfIdle /\ fn = fnIdle

\* the tables of the primary when the manager starts
DefaultTables == {[u \in Units |-> {Row(1, 1, 1)}]}

\* the same, where the incremental table may hold a row whose timestamp
\* column is NULL
NullableTimestampTables ==
    {[u \in Units |-> IF u = "u1" THEN {Row(1, 1, 1)} \cup extra
                                  ELSE {Row(1, 1, 1)}] :
        extra \in {{}, {Row(2, 1, None)}}}

SyncInitWith(configs, tables, rows) ==
    /\ replica_configs \in configs
    /\ schemas \in tables
    /\ primary \in rows
    /\ replica = [r \in Replicas |-> [u \in Units |-> {Row(2, 0, 0)}]]
    /\ now = 1
    /\ last_sync_times = [key \in WatermarkKeys |-> DatetimeMin]
    /\ phase = "idle"
    /\ ticks = 0
    /\ pc = [r \in Replicas |-> "idle"]
    /\ cur = [r \in Replicas |-> 1]
    /\ outcome = [r \in Replicas |-> [u \in Units |-> "pending"]]
    /\ data = [r \in Replicas |-> <<>>]
    /\ staged = [r \in Replicas |-> <<>>]
    /\ has_identity = [r \in Replicas |-> FALSE]
    /\ identity_insert = [r \in Replicas |-> FALSE]
    /\ temp_table = [r \in Replicas |-> FALSE]
    /\ merge_issued = [r \in Replicas |-> FALSE]

SyncInit(configs, tables) == SyncInitWith(configs, tables, DefaultTables)

Init ==
    SyncInit(OneReplica, DefaultSchemas) /\ rx = rxIdle /\ sp = spIdle /\ tp = tpIdle /\ mg = mgIdle /\ bs = bsIdle /\ pt = ptIdle /\ cf = cfIdle /\ fn = fnIdle

FanInit ==
    SyncInit(TwoReplicas, DefaultSchemas) /\ rx = rxIdle /\ sp = spIdle /\ tp = tpIdle /\ mg = mgIdle /\ bs = bsIdle /\ pt = ptIdle /\ cf = cfIdle /\ fn = fnIdle

(***************************************************************************)
(* The ends of one (table, replica) attempt inside _sync_table.            *)
(***************************************************************************)
\* the locals of the attempt go out of scope; the loop moves to the next table
EndAttempt(r, result, nextpc) ==
    /\ outcome' = [outcome EXCEPT ![r][CurUnit(r)] = result]
    /\ pc' = [pc EXCEPT ![r] = nextpc]
    /\ cur' = [cur EXCEPT ![r] = IF cur[r] < Len(UnitOrder) THEN cur[r] + 1 ELSE cur[r]]
    /\ data' = [data EXCEPT ![r] = <<>>]
    /\ staged' = [staged EXCEPT ![r] = <<>>]
    /\ has_identity' = [has_identity EXCEPT ![r] = FALSE]
    /\ merge_issued' = [merge_issued EXCEPT ![r] = FALSE]

\* the sync function returned normally
Returned(r) == EndAttempt(r, "done", NextUnitPc(cur[r]))

\* an exception reached _sync_table's handler ("Error merging data into ..."
\* is logged first when it left _merge_data)
Raised(r) ==
    EndAttempt(r, IF pc[r] \in MergePcs THEN "merge_failed" ELSE "failed",
               PcAfterSyncTableError(cur[r]))

\* `if table_config.replicate` is false: the loop moves to the next table
Skipped(r) ==
    /\ pc' = [pc EXCEPT ![r] = NextUnitPc(cur[r])]
    /\ cur' = [cur EXCEPT ![r] = IF cur[r] < Len(UnitOrder) THEN cur[r] + 1 ELSE cur[r]]
    /\ UNCHANGED <<outcome, data, staged, has_identity, merge_issued>>

\* only the program position of worker r moves
Goto(r, nextpc) ==
    /\ pc' = [pc EXCEPT ![r] = nextpc]
    /\ UNCHANGED <<cur, outcome, data, staged, has_identity, merge_issued>>

\* _merge_data returned: the incremental path sets the watermark next
AfterMerge(r) ==
    IF SyncMode(CurUnit(r)) = "incremental"
    THEN Goto(r, "setwm")
    ELSE Returned(r)

(***************************************************************************)
(* The coordinating thread: _sync_all_replicas.                            *)
(***************************************************************************)
\* `for replica_config in self.replica_configs: executor.submit(...)`: every
\* configured replica gets a worker, whatever became of its last one
SubmittedUnlessFailed(r, previous) == r \in Configured /\ \A u \in Units : previous[u] \in {"pending", "done"}
Submitted(r, previous) == r \in Configured

\* executor.submit(self._sync_replica, replica_config) for every replica, in
\* a run of start() that is observed for `limit` cycles
StartTickUpTo(limit) ==
    /\ phase = "idle"
    /\ ticks < limit
    /\ phase' = "running"
    /\ pc' = [r \in Replicas |->
                IF Submitted(r, outcome[r]) THEN "setup" ELSE pc[r]]
    /\ cur' = [r \in Replicas |-> 1]
    /\ outcome' = [r \in Replicas |-> [u \in Units |-> "pending"]]
    /\ UNCHANGED <<replica_configs, schemas, primary, replica, now, last_sync_times, ticks,
                   data, staged, has_identity, identity_insert, temp_table,
                   merge_issued, aux>>

StartTick == StartTickUpTo(MaxTicks)

\* every future.result() returned: the cycle is complete; start() then sleeps
\* until the next cycle is due (the clock stops at MaxTime)
EndTick ==
    /\ phase = "running"
    /\ \A r \in Configured : pc[r] = "finished"
    /\ phase' = "idle"
    /\ ticks' = ticks + 1
    /\ now' = Min(now + 1, MaxTime)
    /\ pc' = [r \in Replicas |-> "idle"]
    /\ UNCHANGED <<replica_configs, schemas, primary, replica, last_sync_times, cur,
                   outcome, data, staged, has_identity, identity_insert,
                   temp_table, merge_issued, aux>>

(***************************************************************************)
(* One worker: _sync_replica, _sync_table and the two sync functions.      *)
(***************************************************************************)
\* _sync_replica: _setup_replica_database, then the loops over the tables;
\* an exception of the setup ends the worker's run (logged)
ReplicaSetup(r) ==
    /\ pc[r] = "setup"
    /\ \/ Goto(r, "check")
       \/ /\ pc' = [pc EXCEPT ![r] = "finished"]
          /\ outcome' = [outcome EXCEPT ![r] = [u \in Units |-> "setup_failed"]]
          /\ UNCHANGED <<cur, data, staged, has_identity, merge_issued>>
    /\ UNCHANGED <<replica_configs, schemas, primary, replica, now, last_sync_times, phase, ticks,
                   identity_insert, temp_table, aux>>

\* _sync_replica: `if table_config.replicate`, then _sync_table: the
\* table-exists probe, then the dispatch on sync_mode.
\* The tables exist after the bootstrap; a failed probe answers False and the
\* attempt ends in the CREATE TABLE error or in the "does not exist" return.
SyncTableCheck(r) ==
    /\ pc[r] = "check"
    /\ IF ~Replicated(CurUnit(r))
       THEN Skipped(r)
       ELSE \/ IF SyncMode(CurUnit(r)) = "incremental" /\ ~HasTimestampColumn(CurUnit(r))
               THEN Returned(r)
               ELSE Goto(r, "fetch")
            \/ Raised(r)
    /\ UNCHANGED <<replica_configs, schemas, primary, replica, now, last_sync_times, phase, ticks,
                   identity_insert, temp_table, aux>>

\* _get_table_data on the primary: the whole table in full mode, the rows past
\* the watermark of table_key in incremental mode
FetchedRows(r) ==
    IF SyncMode(CurUnit(r)) = "full"
    THEN SelectAll(CurUnit(r))
    ELSE SelectSince(CurUnit(r), Watermark(CurUnit(r), r))

Fetch(r) ==
    /\ pc[r] = "fetch"
    /\ \/ /\ data' = [data EXCEPT ![r] = SeqOf(FetchedRows(r))]
          /\ pc' = [pc EXCEPT ![r] =
                      IF SyncMode(CurUnit(r)) = "full" THEN "delete"
                      ELSE IF NeedsMerge(data'[r]) THEN "connect" ELSE "setwm"]
          /\ UNCHANGED <<cur, outcome, staged, has_identity, merge_issued>>
       \/ Raised(r)
    /\ UNCHANGED <<replica_configs, schemas, primary, replica, now, last_sync_times, phase, ticks,
                   identity_insert, temp_table, aux>>

\* _sync_table_full: DELETE FROM the replica table, whatever was fetched
FullDelete(r) ==
    /\ pc[r] = "delete"
    /\ \/ /\ replica' = [replica EXCEPT ![r][CurUnit(r)] = {}]
          /\ IF NeedsMerge(data[r]) THEN Goto(r, "connect") ELSE Returned(r)
       \/ Raised(r) /\ UNCHANGED replica
    /\ UNCHANGED <<replica_configs, schemas, primary, now, last_sync_times, phase, ticks,
                   identity_insert, temp_table, aux>>

(***************************************************************************)
(* _merge_data: one connection (one session) per call, one step per        *)
(* statement sent to the replica; every statement may raise.               *)
(***************************************************************************)
\* with self._get_connection(db_config) as conn: a new session
MergeConnect(r) ==
    /\ pc[r] = "connect"
    /\ \/ /\ Goto(r, "identity")
          /\ identity_insert' = [identity_insert EXCEPT ![r] = FALSE]
          /\ temp_table' = [temp_table EXCEPT ![r] = FALSE]
       \/ Raised(r) /\ UNCHANGED <<identity_insert, temp_table>>
    /\ UNCHANGED <<replica_configs, schemas, primary, replica, now, last_sync_times, phase, ticks,
                   aux>>

\* the IsIdentity probe (its exception is swallowed: has_identity stays False)
\* and SET IDENTITY_INSERT ... ON when the probe answered 1
MergeIdentity(r) ==
    /\ pc[r] = "identity"
    /\ \/ /\ has_identity' = [has_identity EXCEPT ![r] = IsIdentity(CurUnit(r))]
          /\ identity_insert' = [identity_insert EXCEPT ![r] = IsIdentity(CurUnit(r))]
          /\ pc' = [pc EXCEPT ![r] = "create_temp"]
          /\ UNCHANGED <<cur, outcome, data, staged, merge_issued>>
       \/ /\ has_identity' = [has_identity EXCEPT ![r] = FALSE]
          /\ pc' = [pc EXCEPT ![r] = "create_temp"]
          /\ UNCHANGED <<cur, outcome, data, staged, merge_issued, identity_insert>>
       \/ /\ IsIdentity(CurUnit(r))
          /\ Raised(r)
          /\ UNCHANGED identity_insert
    /\ UNCHANGED <<replica_configs, schemas, primary, replica, now, last_sync_times, phase, ticks,
                   temp_table, aux>>

\* SELECT TOP 0 * INTO #<table>_temp FROM the target
MergeCreateTemp(r) ==
    /\ pc[r] = "create_temp"
    /\ \/ /\ temp_table' = [temp_table EXCEPT ![r] = TRUE]
          /\ Goto(r, "insert")
       \/ Raised(r) /\ UNCHANGED temp_table
    /\ UNCHANGED <<replica_configs, schemas, primary, replica, now, last_sync_times, phase, ticks,
                   identity_insert, aux>>

\* cursor.executemany(insert_temp_query, batch) for the next slice
MergeInsertBatch(r) ==
    /\ pc[r] = "insert"
    /\ \/ /\ staged' = [staged EXCEPT ![r] = @ \o NextBatch(data[r], Len(@))]
          /\ pc' = [pc EXCEPT ![r] =
                      IF AllStaged(data[r], staged'[r]) THEN "merge" ELSE "insert"]
          /\ UNCHANGED <<cur, outcome, data, has_identity, merge_issued>>
       \/ Raised(r)
    /\ UNCHANGED <<replica_configs, schemas, primary, replica, now, last_sync_times, phase, ticks,
                   identity_insert, temp_table, aux>>

\* cursor.execute(merge_sql): one atomic statement over the staged rows
MergeStatement(r) ==
    /\ pc[r] = "merge"
    /\ \/ /\ replica' = [replica EXCEPT ![r][CurUnit(r)] =
                            MergeResult(@, RowsOf(staged[r]))]
          /\ merge_issued' = [merge_issued EXCEPT ![r] = TRUE]
          /\ pc' = [pc EXCEPT ![r] = "drop"]
          /\ UNCHANGED <<cur, outcome, data, staged, has_identity>>
       \/ Raised(r) /\ UNCHANGED replica
    /\ UNCHANGED <<replica_configs, schemas, primary, now, last_sync_times, phase, ticks,
                   identity_insert, temp_table, aux>>

\* cursor.execute(DROP TABLE #<table>_temp): on the success path only
MergeDropTemp(r) ==
    /\ pc[r] = "drop"
    /\ \/ /\ temp_table' = [temp_table EXCEPT ![r] = FALSE]
          /\ IF has_identity[r] THEN Goto(r, "identity_off") ELSE AfterMerge(r)
       \/ Raised(r) /\ UNCHANGED temp_table
    /\ UNCHANGED <<replica_configs, schemas, primary, replica, now, last_sync_times, phase, ticks,
                   identity_insert, aux>>

\* SET IDENTITY_INSERT ... OFF: on the success path only
MergeIdentityOff(r) ==
    /\ pc[r] = "identity_off"
    /\ \/ /\ identity_insert' = [identity_insert EXCEPT ![r] = FALSE]
          /\ AfterMerge(r)
       \/ Raised(r) /\ UNCHANGED identity_insert
    /\ UNCHANGED <<replica_configs, schemas, primary, replica, now, last_sync_times, phase, ticks,
                   temp_table, aux>>

\* self.last_sync_times[table_key] = datetime.now()
SetWatermark(r) ==
    /\ pc[r] = "setwm"
    /\ last_sync_times' = [last_sync_times EXCEPT ![TableKey(CurUnit(r), r)] = now]
    /\ Returned(r)
    /\ UNCHANGED <<replica_configs, schemas, primary, replica, now, phase, ticks,
                   identity_insert, temp_table, aux>>

\* the connection of a finished _merge_data call is unreferenced; whenever the
\* runtime finalizes it the server ends the session and with it the session's
\* temporary table and IDENTITY_INSERT setting
ConnectionFinalized(r) ==
    /\ pc[r] \notin MergePcs
    /\ temp_table[r] \/ identity_insert[r]
    /\ identity_insert' = [identity_insert EXCEPT ![r] = FALSE]
    /\ temp_table' = [temp_table EXCEPT ![r] = FALSE]
    /\ UNCHANGED <<replica_configs, schemas, primary, replica, now, last_sync_times, phase, ticks,
                   pc, cur, outcome, data, staged, has_identity,
                   merge_issued, aux>>

(***************************************************************************)
(* The environment: writers of the primary.  Every write takes a new       *)
(* clock value as its timestamp.                                           *)
(***************************************************************************)
PrimaryWrite(u, k) ==
    /\ now < MaxTime
    /\ now' = now + 1
    /\ primary' = [primary EXCEPT ![u] =
                      {x \in @ : x.k # k} \cup {Row(k, now + 1, now + 1)}]
    /\ UNCHANGED <<replica_configs, schemas, replica, last_sync_times, phase, ticks, pc, cur,
                   outcome, data, staged, has_identity, identity_insert,
                   temp_table, merge_issued, aux>>

PrimaryDelete(u, k) ==
    /\ now < MaxTime
    /\ k \in KeysOf(primary[u])
    /\ now' = now + 1
    /\ primary' = [primary EXCEPT ![u] = {x \in @ : x.k # k}]
    /\ UNCHANGED <<replica_configs, schemas, replica, last_sync_times, phase, ticks, pc, cur,
                   outcome, data, staged, has_identity, identity_insert,
                   temp_table, merge_issued, aux>>

WorkerStep(r) ==
    \/ ReplicaSetup(r)
    \/ SyncTableCheck(r)
    \/ Fetch(r)
    \/ FullDelete(r)
    \/ MergeConnect(r)
    \/ MergeIdentity(r)
    \/ MergeCreateTemp(r)
    \/ MergeInsertBatch(r)
    \/ MergeStatement(r)
    \/ MergeDropTemp(r)
    \/ MergeIdentityOff(r)
    \/ SetWatermark(r)

Engine ==
    \/ StartTick
    \/ EndTick
    \/ \E r \in Replicas : WorkerStep(r)
    \/ \E r \in Replicas : ConnectionFinalized(r)

Next ==
    \/ Engine
    \/ \E u \in Units, k \in Keys : PrimaryWrite(u, k)
    \/ \E u \in Units, k \in Keys : PrimaryDelete(u, k)

Spec == Init /\ [][Next]_vars

FanSpec == FanInit /\ [][Engine]_vars

\* the cycles of one replica over a primary whose incremental table has a
\* nullable timestamp column
FirstSyncInit ==
    SyncInitWith(OneReplica, DefaultSchemas, NullableTimestampTables) /\ AuxIdle

FirstSyncSpec == FirstSyncInit /\ [][Next]_vars

\* consecutive cycles of one replica over a primary that is not written to
CycleNext ==
    \/ StartTickUpTo(MaxCycles)
    \/ EndTick
    \/ \E r \in Configured : WorkerStep(r)
    \/ \E r \in Configured : ConnectionFinalized(r)

CycleSpec == Init /\ [][CycleNext]_vars

\* start() begins the next cycle when the sleep ends, the workers are
\* scheduled and their database calls return
CycleLiveSpec ==
    /\ CycleSpec
    /\ WF_vars(StartTickUpTo(MaxCycles))
    /\ WF_vars(EndTick)
    /\ WF_vars(\E r \in Configured : WorkerStep(r))

\* the cycles of one replica for a configuration whose incremental table may
\* come without the optional timestamp_column
ConfigInit == SyncInit(OneReplica, OptionalTimestampSchemas) /\ AuxIdle

ConfigSpec == ConfigInit /\ [][Next]_vars

(***************************************************************************)
(* execute_query_with_retry of the pooled manager                          *)
(* (src/raw_replication_manager.py): one call against one endpoint.        *)
(***************************************************************************)
\* the inputs of one call: the configured retry_attempts, the retry_attempts
\* argument, the connection parameters, the endpoint and the pool entry
RxInputs ==
    [pc        : {"call"},
     cfg       : 0..MaxRetry,                \* config['replication']['retry_attempts']
     arg       : {None} \cup (0..MaxRetry),  \* the retry_attempts argument
     params_ok : BOOLEAN,                    \* all([host, port, uid, pwd])
     down      : BOOLEAN,                    \* every attempt on the endpoint fails
     pool      : {"none", "live", "dead"},   \* connection_pool[pool_key]
     n         : {0},                        \* the local retry_attempts
     attempt   : {0},                        \* the loop variable
     tries     : {0},                        \* attempts started
     executed  : {FALSE},                    \* the statement ran to completion
     error     : {"none"},                   \* class of the last attempt's error
     conn      : {"none"},                   \* what get_connection returned:
                                             \*   "pooled" | "new" | "none"
     probe     : {"none"},                   \* SELECT 1 on the pooled connection:
                                             \*   "passed" | "failed" | "none"
     waited    : {0}]                        \* seconds slept between attempts

\* `retry_attempts or config.get(...)`: a None or 0 argument takes the config
EffectiveRetryAttempts(arg, cfg) == IF arg = None \/ arg = 0 THEN cfg ELSE arg

\* lines 205-210: the retry count, then the parameter pre-validation
RxEnter ==
    /\ rx.pc = "call"
    /\ rx' = IF rx.params_ok
             THEN [rx EXCEPT !.pc = "loop",
                             !.n = EffectiveRetryAttempts(rx.arg, rx.cfg)]
             ELSE [rx EXCEPT !.pc = "raised", !.error = "ValueError",
                             !.n = EffectiveRetryAttempts(rx.arg, rx.cfg)]
    /\ UNCHANGED othersRx

\* `for attempt in range(retry_attempts)`: the next attempt, or the end of the
\* loop, after which the function returns None
RxLoop ==
    /\ rx.pc = "loop"
    /\ rx' = IF rx.attempt < rx.n
             THEN [rx EXCEPT !.pc = "connect", !.tries = @ + 1,
                             !.conn = "none", !.probe = "none"]
             ELSE [rx EXCEPT !.pc = "returned"]
    /\ UNCHANGED othersRx

\* config['replication']['retry_delay_seconds'], in seconds
retry_delay == 5

\* the sleep after failed attempt number attempt + 1: the pyodbc.Error clause
\* sleeps retry_delay * (attempt + 1), the generic clause sleeps retry_delay
WaitTime(class, attempt) ==
    IF class = "pyodbc.Error" THEN retry_delay * (attempt + 1) ELSE retry_delay

\* the pool entry after the except clause: the pyodbc.Error clause closes and
\* deletes it, the generic clause leaves it
PoolAfterError(class, pool) ==
    IF class = "pyodbc.Error" THEN "none" ELSE pool

\* the except clauses: the last attempt re-raises, the others sleep and loop
RxOnError(class, pool) ==
    [rx EXCEPT !.error = class,
               !.pool = PoolAfterError(class, pool),
               !.pc = IF rx.attempt < rx.n - 1 THEN "loop" ELSE "raised",
               !.waited = IF rx.attempt < rx.n - 1
                          THEN @ + WaitTime(class, rx.attempt) ELSE @,
               !.attempt = IF rx.attempt < rx.n - 1 THEN @ + 1 ELSE @]

\* a get_connection that hands out the pooled connection without probing it
ProbeSkipped(pool, down) == TRUE

\* the probe of get_connection: SELECT 1 on the pooled connection succeeds
ProbePasses(pool, down) == pool = "live" /\ ~down

\* get_connection: a pooled connection that answers SELECT 1 is returned; a
\* dead one is closed and removed, and a new connection is opened and pooled
RxGetConnection ==
    /\ rx.pc = "connect"
    /\ LET hit == rx.pool # "none"
           ok == hit /\ ProbePasses(rx.pool, rx.down)
           probed == IF hit THEN "failed" ELSE "none"
       IN \/ /\ ok
             /\ rx' = [rx EXCEPT !.pc = "execute", !.conn = "pooled",
                                 !.probe = "passed"]
          \/ /\ ~ok
             /\ ~rx.down
             /\ rx' = [rx EXCEPT !.pc = "execute", !.pool = "live",
                                 !.conn = "new", !.probe = probed]
          \/ /\ ~ok
             /\ rx' = [RxOnError("pyodbc.Error", "none") EXCEPT !.probe = probed]
    /\ UNCHANGED othersRx

\* cursor.execute and fetchall on the connection
RxExecute ==
    /\ rx.pc = "execute"
    /\ \/ /\ ~rx.down
          /\ rx' = [rx EXCEPT !.pc = "returned", !.executed = TRUE]
       \/ rx' = RxOnError("pyodbc.Error", rx.pool)
       \/ rx' = RxOnError("Exception", rx.pool)
    /\ UNCHANGED othersRx

RetryInit ==
    SyncInit(OneReplica, DefaultSchemas) /\ rx \in RxInputs /\ sp = spIdle /\ tp = tpIdle /\ mg = mgIdle /\ bs = bsIdle /\ pt = ptIdle /\ cf = cfIdle /\ fn = fnIdle

RetryNext == RxEnter \/ RxLoop \/ RxGetConnection \/ RxExecute

RetrySpec == RetryInit /\ [][RetryNext]_vars

(***************************************************************************)
(* _setup_replicas_parallel of the pooled manager                          *)
(* (src/raw_replication_manager.py): one worker thread per replica, every  *)
(* worker runs its statements through the shared connection_pool.  The     *)
(* pool has no lock: a step is one dictionary operation or one round trip. *)
(* A call is one attempt here; the retry loop is RetrySpec's.              *)
(***************************************************************************)
SetupWorkers == {"w1", "w2"}

\* host:port of a replica
Endpoints == {"e1", "e2"}

\* the database argument of the statements of setup_single_replica:
\* ensure_database_exists and ensure_login_exists connect to master (None),
\* the CREATE USER statement to the replica's database
SetupCalls(w) == <<"master", "master", sp.db[w]>>

\* pool_key = f"{host}:{port}:{database or 'master'}"
PoolKeys == Endpoints \X {"master", "d1", "d2"}

SpKey(w) == <<sp.endpoint[w], SetupCalls(w)[sp.call[w]]>>

\* two replicas with their own databases, on one server or on two
SpInputs ==
    {[pc       |-> "on",
      endpoint |-> [w \in SetupWorkers |-> IF w = "w1" THEN "e1" ELSE e],
      db       |-> [w \in SetupWorkers |-> IF w = "w1" THEN "d1" ELSE "d2"],
      wpc      |-> [w \in SetupWorkers |-> "queued"],
      call     |-> [w \in SetupWorkers |-> 1],
      held     |-> [w \in SetupWorkers |-> 0],   \* conn of the call in hand
      ok       |-> [w \in SetupWorkers |-> TRUE],
      pool     |-> [k \in PoolKeys |-> 0],       \* connection_pool, 0: no entry
      closed   |-> {},                           \* connections closed so far
      next_id  |-> 1,
      running  |-> TRUE,                         \* self.running
      at_stop  |-> {},       \* the connections pooled when stop() was called
      todo     |-> {},       \* pool keys close_all_connections has yet to visit
      close_called |-> {},   \* connections whose close() it has called
      close_raised |-> {}]   \* those whose close() raised
        : e \in Endpoints}

\* connection_pool[pool_key].close(); del connection_pool[pool_key]
SpEvicted(k) ==
    [sp EXCEPT !.closed = IF sp.pool[k] # 0 THEN @ \cup {sp.pool[k]} ELSE @,
               !.pool[k] = 0]

\* the statement raised: execute_query_with_retry evicts the pool entry and
\* re-raises, setup_single_replica returns (name, False)
SpFailed(w) ==
    [SpEvicted(SpKey(w)) EXCEPT !.wpc[w] = "done", !.ok[w] = FALSE, !.held[w] = 0]

\* executor.submit(setup_single_replica, replica): max_workers is
\* min(len(replicas), 4), so both workers start
SpStart(w) ==
    /\ sp.pc = "on"
    /\ sp.wpc[w] = "queued"
    /\ sp' = [sp EXCEPT !.wpc[w] = "lookup"]
    /\ UNCHANGED othersSp

\* get_connection: `if pool_key in self.connection_pool`
SpLookup(w) ==
    /\ sp.pc = "on"
    /\ sp.wpc[w] = "lookup"
    /\ sp' = IF sp.pool[SpKey(w)] # 0
             THEN [sp EXCEPT !.held[w] = sp.pool[SpKey(w)], !.wpc[w] = "probe"]
             ELSE [sp EXCEPT !.wpc[w] = "connect"]
    /\ UNCHANGED othersSp

\* get_connection: SELECT 1 on the pooled connection; a closed connection
\* fails the probe, the entry is closed and deleted
SpProbe(w) ==
    /\ sp.pc = "on"
    /\ sp.wpc[w] = "probe"
    /\ sp' = IF sp.held[w] \notin sp.closed
             THEN [sp EXCEPT !.wpc[w] = "execute"]
             ELSE [SpEvicted(SpKey(w)) EXCEPT !.wpc[w] = "connect", !.held[w] = 0]
    /\ UNCHANGED othersSp

\* get_connection: pyodbc.connect and the store under pool_key
SpConnect(w) ==
    /\ sp.pc = "on"
    /\ sp.wpc[w] = "connect"
    /\ \/ sp' = [sp EXCEPT !.pool[SpKey(w)] = sp.next_id,
                            !.held[w] = sp.next_id,
                            !.next_id = @ + 1,
                            !.wpc[w] = "execute"]
       \/ sp' = SpFailed(w)
    /\ UNCHANGED othersSp

\* cursor.execute on the connection in hand, then the next statement of
\* setup_single_replica
SpExecute(w) ==
    /\ sp.pc = "on"
    /\ sp.wpc[w] = "execute"
    /\ \/ /\ sp.held[w] \notin sp.closed
          /\ sp' = IF sp.call[w] < Len(SetupCalls(w))
                   THEN [sp EXCEPT !.call[w] = @ + 1, !.held[w] = 0,
                                   !.wpc[w] = "lookup"]
                   ELSE [sp EXCEPT !.held[w] = 0, !.wpc[w] = "done"]
       \/ sp' = SpFailed(w)
    /\ UNCHANGED othersSp

\* for future in as_completed(futures): the executor is joined
SpJoin ==
    /\ sp.pc = "on"
    /\ \A w \in SetupWorkers : sp.wpc[w] = "done"
    /\ sp' = [sp EXCEPT !.pc = "joined"]
    /\ UNCHANGED othersSp

\* the pool keys that hold a connection
SpPooled == {k \in PoolKeys : sp.pool[k] # 0}

\* stop(): self.running = False, then close_all_connections begins its loop
\* over connection_pool.items(); main() calls it in its finally block, after
\* setup_replication returned or raised
SpStop ==
    /\ sp.pc = "joined"
    /\ sp' = [sp EXCEPT !.pc = "closing", !.running = FALSE,
                        !.todo = SpPooled,
                        !.at_stop = {sp.pool[k] : k \in SpPooled}]
    /\ UNCHANGED othersSp

\* the keys the loop of close_all_connections goes on to after conn.close()
\* of key k returned or raised (`except Exception: pass`)
TodoAfterCloseAborting(todo, k, raised) == IF raised THEN {} ELSE todo \ {k}
TodoAfterClose(todo, k, raised) == todo \ {k}

\* close_all_connections: conn.close() of one pool entry; an exception of
\* close() is swallowed
SpCloseOne ==
    /\ sp.pc = "closing"
    /\ \E k \in sp.todo, raised \in BOOLEAN :
         sp' = [sp EXCEPT
                !.todo = TodoAfterClose(@, k, raised),
                !.close_called = @ \cup {sp.pool[k]},
                !.close_raised = IF raised THEN @ \cup {sp.pool[k]} ELSE @,
                !.closed = IF raised THEN @ ELSE @ \cup {sp.pool[k]}]
    /\ UNCHANGED othersSp

\* close_all_connections: self.connection_pool.clear() after the loop
SpClear ==
    /\ sp.pc = "closing"
    /\ sp.todo = {}
    /\ sp' = [sp EXCEPT !.pc = "stopped", !.pool = [k \in PoolKeys |-> 0]]
    /\ UNCHANGED othersSp

SetupInit ==
    SyncInit(OneReplica, DefaultSchemas) /\ rx = rxIdle /\ sp \in SpInputs /\ tp = tpIdle /\ mg = mgIdle /\ bs = bsIdle /\ pt = ptIdle /\ cf = cfIdle /\ fn = fnIdle

SetupNext ==
    \/ \E w \in SetupWorkers :
          SpStart(w) \/ SpLookup(w) \/ SpProbe(w) \/ SpConnect(w) \/ SpExecute(w)
    \/ SpJoin
    \/ SpStop
    \/ SpCloseOne
    \/ SpClear

SetupSpec == SetupInit /\ [][SetupNext]_vars

(***************************************************************************)
(* The thread pool of one _sync_all_replicas call                          *)
(* (src/enhanced_replication_manager.py), for any number of replicas: a    *)
(* task is one _sync_replica call, whose steps are the worker steps above. *)
(***************************************************************************)
\* an executor as large as the task list: a mutant of max_workers
max_workers_uncapped(n) == n

\* max_workers = min(len(self.replica_configs), 4)
max_workers(n) == Min(n, 4)

TpTasks == 1..MaxReplicas

TpInputs ==
    {[pc |-> "created",
      n  |-> n,                                  \* len(self.replica_configs)
      st |-> [i \in TpTasks |-> "none"]] : n \in 0..MaxReplicas}

TpRunning == {i \in TpTasks : tp.st[i] = "running"}

\* ThreadPoolExecutor(max_workers) raises ValueError for max_workers <= 0;
\* otherwise every replica's task is submitted, in the order of the list
TpSubmit ==
    /\ tp.pc = "created"
    /\ tp' = IF max_workers(tp.n) <= 0
             THEN [tp EXCEPT !.pc = "raised"]
             ELSE [tp EXCEPT !.pc = "running",
                             !.st = [i \in TpTasks |->
                                        IF i <= tp.n THEN "queued" ELSE "none"]]
    /\ UNCHANGED othersTp

\* a thread of the pool takes the oldest queued task; the pool has at most
\* max_workers threads
TpTaskStart(i) ==
    /\ tp.pc = "running"
    /\ tp.st[i] = "queued"
    /\ \A j \in TpTasks : j < i => tp.st[j] # "queued"
    /\ Cardinality(TpRunning) < max_workers(tp.n)
    /\ tp' = [tp EXCEPT !.st[i] = "running"]
    /\ UNCHANGED othersTp

\* _sync_replica returned (it catches every exception)
TpTaskFinish(i) ==
    /\ tp.pc = "running"
    /\ tp.st[i] = "running"
    /\ tp' = [tp EXCEPT !.st[i] = "done"]
    /\ UNCHANGED othersTp

\* every future.result() returned and the with block is left
TpJoin ==
    /\ tp.pc = "running"
    /\ \A i \in TpTasks : tp.st[i] \in {"none", "done"}
    /\ tp' = [tp EXCEPT !.pc = "joined"]
    /\ UNCHANGED othersTp

ExecInit ==
    SyncInit(OneReplica, DefaultSchemas) /\ rx = rxIdle /\ sp = spIdle /\ tp \in TpInputs /\ mg = mgIdle /\ bs = bsIdle /\ pt = ptIdle /\ cf = cfIdle /\ fn = fnIdle

ExecNext ==
    \/ TpSubmit
    \/ \E i \in TpTasks : TpTaskStart(i) \/ TpTaskFinish(i)
    \/ TpJoin

ExecSpec == ExecInit /\ [][ExecNext]_vars

(***************************************************************************)
(* start() of EnhancedSQLServerReplicationManager: the connection tests,   *)
(* the setup of the replicas, then the main loop on the main thread and    *)
(* the health-check loop on its own thread, both under self.running.  A    *)
(* sync cycle is _sync_all_replicas as modelled above; here it is its      *)
(* duration and whether a connection failed in it.  stop() may be called   *)
(* from another thread at any time.                                        *)
(***************************************************************************)
Max(a, b) == IF a > b THEN a ELSE b

\* a scheduler that always sleeps the whole interval: a mutant of SleepTime
SleepTimeWholeInterval(interval, elapsed) == interval

\* sleep_time = max(0, sync_interval - elapsed)
SleepTime(interval, elapsed) == Max(0, interval - elapsed)

\* a loop that does not read the flag: a mutant of LoopContinues
LoopContinuesAlways(running) == TRUE

\* `while self.running`
LoopContinues(running) == running

MgInputs ==
    [pc       : {"test"},         \* position of the main thread in start()
     running  : {FALSE},          \* self.running
     hpc      : {"off"},          \* position of the health-check thread
     interval : 1..MaxInterval,   \* sync_interval
     setup_i  : {0},              \* replicas set up by start()
     cycles   : {0},              \* sync cycles started
     elapsed  : {0},              \* duration of the cycle in hand
     errors   : {FALSE},          \* a connection failed in the cycle in hand
     slept    : {0},              \* sleep_time of the last cycle
     warned   : {FALSE},          \* the last cycle logged the overrun warning
     intr     : {FALSE},          \* KeyboardInterrupt was raised
     health_failed : {FALSE},     \* the last health-check round raised
     exit_in  : {"none"}]         \* where sys.exit(1) was called

MgLoopPcs == {"loop", "cycle", "sleep", "drain"}

\* _test_connections: any failing endpoint makes start() exit
MgTestConnections ==
    /\ mg.pc = "test"
    /\ \/ mg' = [mg EXCEPT !.pc = "setup"]
       \/ mg' = [mg EXCEPT !.pc = "exit1", !.exit_in = "test"]
    /\ UNCHANGED othersMg

\* _setup_replica_database for the next replica: any exception, a connection
\* failure included, makes start() exit
MgSetupReplica ==
    /\ mg.pc = "setup"
    /\ mg.setup_i < Cardinality(Replicas)
    /\ \/ mg' = [mg EXCEPT !.setup_i = @ + 1]
       \/ mg' = [mg EXCEPT !.pc = "exit1", !.exit_in = "setup"]
    /\ UNCHANGED othersMg

\* self.running = True; health_thread.start()
MgRun ==
    /\ mg.pc = "setup"
    /\ mg.setup_i = Cardinality(Replicas)
    /\ mg' = [mg EXCEPT !.pc = "loop", !.running = TRUE, !.hpc = "test"]
    /\ UNCHANGED othersMg

\* `while self.running`: the next cycle starts, or the loop ends and the
\* finally clause calls stop()
MgLoopTest ==
    /\ mg.pc = "loop"
    /\ IF LoopContinues(mg.running)
       THEN /\ mg.cycles < MaxCycles
            /\ mg' = [mg EXCEPT !.pc = "cycle", !.cycles = @ + 1, !.elapsed = 0,
                                !.errors = FALSE, !.slept = 0, !.warned = FALSE]
       ELSE mg' = [mg EXCEPT !.pc = "exited", !.running = FALSE]
    /\ UNCHANGED othersMg

\* _sync_all_replicas at work: time passes; a connection failure of any
\* endpoint is logged by _sync_table or _sync_replica
MgCycleWork ==
    /\ mg.pc \in {"cycle", "drain"}
    /\ mg.elapsed < MaxElapsed
    /\ \E failed \in BOOLEAN :
          mg' = [mg EXCEPT !.elapsed = @ + 1, !.errors = @ \/ failed]
    /\ UNCHANGED othersMg

\* _sync_all_replicas returned: sleep, or warn and go on
MgCycleEnd ==
    /\ mg.pc = "cycle"
    /\ LET sleep_time == SleepTime(mg.interval, mg.elapsed)
       IN  mg' = IF sleep_time > 0
                 THEN [mg EXCEPT !.pc = "sleep", !.slept = sleep_time]
                 ELSE [mg EXCEPT !.pc = "loop", !.slept = sleep_time,
                                 !.warned = TRUE]
    /\ UNCHANGED othersMg

\* time.sleep(sleep_time) returned
MgWake ==
    /\ mg.pc = "sleep"
    /\ mg' = [mg EXCEPT !.pc = "loop"]
    /\ UNCHANGED othersMg

\* KeyboardInterrupt on the main thread: inside _sync_all_replicas the with
\* block first waits for the workers; then the finally clause calls stop()
MgInterrupt ==
    /\ mg.pc \in {"loop", "cycle", "sleep"}
    /\ mg' = IF mg.pc = "cycle"
             THEN [mg EXCEPT !.pc = "drain", !.intr = TRUE]
             ELSE [mg EXCEPT !.pc = "exited", !.intr = TRUE, !.running = FALSE]
    /\ UNCHANGED othersMg

\* the workers of the interrupted cycle have finished
MgDrain ==
    /\ mg.pc = "drain"
    /\ mg' = [mg EXCEPT !.pc = "exited", !.running = FALSE]
    /\ UNCHANGED othersMg

\* stop() called from another thread
MgStop ==
    /\ mg.pc \in MgLoopPcs
    /\ mg.running
    /\ mg' = [mg EXCEPT !.running = FALSE]
    /\ UNCHANGED othersMg

\* _health_check: `while self.running`
MhLoopTest ==
    /\ mg.hpc = "test"
    /\ mg' = [mg EXCEPT !.hpc = IF LoopContinues(mg.running) THEN "round"
                                ELSE "exited"]
    /\ UNCHANGED othersMg

\* where the health-check thread goes after a round: the `except` inside
\* the loop logs, and both ends of the try reach time.sleep(health_interval)
HpcAfterRoundExiting(failed) == IF failed THEN "exited" ELSE "sleep"
HpcAfterRound(failed) == "sleep"

\* one round of probes of the master and the replicas; a probe that raises
\* ends the round in "Health check failed"
MhRound ==
    /\ mg.hpc = "round"
    /\ \E failed \in BOOLEAN :
         mg' = [mg EXCEPT !.hpc = HpcAfterRound(failed),
                          !.health_failed = failed]
    /\ UNCHANGED othersMg

\* time.sleep(health_interval) returned
MhWake ==
    /\ mg.hpc = "sleep"
    /\ mg' = [mg EXCEPT !.hpc = "test"]
    /\ UNCHANGED othersMg

LoopInit ==
    SyncInit(OneReplica, DefaultSchemas) /\ rx = rxIdle /\ sp = spIdle /\ tp = tpIdle /\ mg \in MgInputs /\ bs = bsIdle /\ pt = ptIdle /\ cf = cfIdle /\ fn = fnIdle

\* the steps of the main thread that end a call or a sleep
MgMain == MgLoopTest \/ MgCycleEnd \/ MgWake \/ MgDrain

\* the steps of the health-check thread
MhThread == MhLoopTest \/ MhRound \/ MhWake

LoopNext ==
    \/ MgTestConnections
    \/ MgSetupReplica
    \/ MgRun
    \/ MgMain
    \/ MgCycleWork
    \/ MgInterrupt
    \/ MgStop
    \/ MhThread

LoopSpec == LoopInit /\ [][LoopNext]_vars

\* both threads are scheduled, and every database call and sleep returns
LoopLiveSpec == LoopSpec /\ WF_vars(MgMain) /\ WF_vars(MhThread)


(***************************************************************************)
(* _setup_replica_database of the enhanced manager on one replica, run     *)
(* twice in a row (start() runs it once, every _sync_replica runs it       *)
(* again).  The replica holds a database, a schema and tables; a probe     *)
(* reads them, a CREATE statement adds one.                                *)
(***************************************************************************)
\* the tables of schemas_to_replicate, in configuration order
BsTables == <<"t1", "t2">>

\* schema_config.schema_name
BsSchemas == {"dbo", "app"}

\* the steps that execute a CREATE statement
BsCreatePcs == {"db_create", "schema_create", "table_create"}

\* a replica as the bootstrap can find it: nothing, the database alone, or
\* the database with the schema and some of the tables; `replicate` holds the
\* tables whose table_config.replicate is true
BsInputsWith(replicate) ==
    {b \in [pc : {"db_probe"}, run : {1}, schema_name : BsSchemas,
            db : BOOLEAN, sch : BOOLEAN, tables : SUBSET {"t1", "t2"},
            replicate : {replicate},
            ti : {1}, ddl : {{}}, ddl1 : {{}}, visited : {{}},
            failed : {FALSE}, probe_lost : {FALSE}, clean1 : {FALSE},
            raised_in : {""}] :
        /\ b.sch => b.db
        /\ (b.schema_name = "dbo") => (b.sch = b.db)
        /\ (b.tables # {}) => b.sch}

\* every table is replicated
BsInputs == BsInputsWith({"t1", "t2"})

\* `if not self._database_exists(...)`, `not self._schema_exists(...)`,
\* `if not self._table_exists(...)`: a CREATE follows a probe that said no
NeedsCreateAlways(answer) == TRUE
NeedsCreate(answer) == ~answer

\* the answer of a probe: the catalog row when the query ran, False when the
\* connection or the query raised (`except Exception: ... return False`)
ProbeAnswer(present, raised) == IF raised THEN FALSE ELSE present

\* the step after the table at index i was dealt with
BsAfterTable(i) == IF i < Len(BsTables) THEN "table_probe" ELSE "done"

\* an exception leaves _setup_replica_database (`except: log; raise`)
BsRaise(where, statement) ==
    bs' = [bs EXCEPT !.pc = "raised", !.failed = TRUE, !.raised_in = where,
                     !.ddl = @ \cup statement]

\* _create_database: the probe of sys.databases
BsDatabaseExists ==
    /\ bs.pc = "db_probe"
    /\ \E raised \in BOOLEAN :
         LET answer == ProbeAnswer(bs.db, raised)
         IN bs' = [bs EXCEPT
                !.pc = IF NeedsCreate(answer) THEN "db_create"
                       ELSE "schema_probe",
                !.failed = @ \/ raised,
                !.probe_lost = @ \/ raised]
    /\ UNCHANGED othersBs

\* _create_database: CREATE DATABASE, which the server rejects for a
\* database that exists
BsCreateDatabase ==
    /\ bs.pc = "db_create"
    /\ \/ BsRaise("db_create", {})
       \/ /\ bs.db
          /\ BsRaise("db_create", {"db"})
       \/ /\ ~bs.db
          /\ bs' = [bs EXCEPT !.pc = "schema_probe", !.db = TRUE,
                              !.sch = (bs.schema_name = "dbo"),
                              !.ddl = @ \cup {"db"}]
    /\ UNCHANGED othersBs

\* _create_schema: 'dbo' is never probed nor created
BsSchemaExists ==
    /\ bs.pc = "schema_probe"
    /\ IF bs.schema_name = "dbo"
       THEN bs' = [bs EXCEPT !.pc = "table_probe"]
       ELSE \E raised \in BOOLEAN :
              LET answer == ProbeAnswer(bs.sch, raised)
              IN bs' = [bs EXCEPT
                     !.pc = IF NeedsCreate(answer) THEN "schema_create"
                            ELSE "table_probe",
                     !.failed = @ \/ raised,
                     !.probe_lost = @ \/ raised]
    /\ UNCHANGED othersBs

\* _create_schema: CREATE SCHEMA
BsCreateSchema ==
    /\ bs.pc = "schema_create"
    /\ \/ BsRaise("schema_create", {})
       \/ /\ bs.sch
          /\ BsRaise("schema_create", {"schema"})
       \/ /\ ~bs.sch
          /\ bs' = [bs EXCEPT !.pc = "table_probe", !.sch = TRUE,
                              !.ddl = @ \cup {"schema"}]
    /\ UNCHANGED othersBs

\* the loop over schema_config.tables: `if table_config.replicate and
\* self.create_missing_tables`, then _table_exists
BsTableExists ==
    /\ bs.pc = "table_probe"
    /\ IF BsTables[bs.ti] \notin bs.replicate
       THEN bs' = [bs EXCEPT !.pc = BsAfterTable(bs.ti),
                             !.ti = Min(@ + 1, Len(BsTables))]
       ELSE \E raised \in BOOLEAN :
         LET answer == ProbeAnswer(BsTables[bs.ti] \in bs.tables, raised)
         IN bs' = [bs EXCEPT
                !.pc = IF NeedsCreate(answer) THEN "table_create"
                       ELSE BsAfterTable(bs.ti),
                !.ti = IF NeedsCreate(answer) THEN @
                       ELSE Min(@ + 1, Len(BsTables)),
                !.visited = @ \cup {BsTables[bs.ti]},
                !.failed = @ \/ raised,
                !.probe_lost = @ \/ raised]
    /\ UNCHANGED othersBs

\* _create_table_from_master: the structure is read from the master, then
\* CREATE TABLE runs on the replica; either may raise, and the exception
\* leaves _setup_replica_database
BsCreateTableFromMaster ==
    /\ bs.pc = "table_create"
    /\ LET t == BsTables[bs.ti]
       IN \/ /\ BsRaise("table_create", {})
          \/ /\ t \in bs.tables
             /\ BsRaise("table_create", {t})
          \/ /\ t \notin bs.tables
             /\ bs' = [bs EXCEPT !.pc = BsAfterTable(bs.ti),
                                 !.ti = Min(@ + 1, Len(BsTables)),
                                 !.tables = @ \cup {t},
                                 !.ddl = @ \cup {t}]
    /\ UNCHANGED othersBs

\* the next call of _setup_replica_database on the same replica
BsRunAgain ==
    /\ bs.pc \in {"done", "raised"}
    /\ bs.run = 1
    /\ bs' = [bs EXCEPT !.pc = "db_probe", !.run = 2, !.ti = 1,
                        !.clean1 = (bs.pc = "done" /\ ~bs.failed),
                        !.ddl1 = bs.ddl, !.ddl = {}, !.visited = {},
                        !.failed = FALSE, !.probe_lost = FALSE,
                        !.raised_in = ""]
    /\ UNCHANGED othersBs

BootInit ==
    /\ SyncInit(OneReplica, DefaultSchemas)
    /\ rx = rxIdle /\ sp = spIdle /\ tp = tpIdle /\ mg = mgIdle
    /\ bs \in BsInputs /\ pt = ptIdle /\ cf = cfIdle /\ fn = fnIdle

BootNext ==
    \/ BsDatabaseExists
    \/ BsCreateDatabase
    \/ BsSchemaExists
    \/ BsCreateSchema
    \/ BsTableExists
    \/ BsCreateTableFromMaster
    \/ BsRunAgain

BootSpec == BootInit /\ [][BootNext]_vars


(***************************************************************************)
(* _process_tables_and_articles of the pooled manager: for every table the *)
(* primary key is validated on the master, the schema and the table are    *)
(* created on every replica, the article is added; the foreign keys of the *)
(* created tables are applied after the loops.                             *)
(***************************************************************************)
\* schema['tables'] with replicate set, in configuration order
PtTables == <<"t1", "t2">>

\* the replicas of the configuration, in order
PtReplicas == <<"r1", "r2">>

PtTableSet == {PtTables[i] : i \in 1..Len(PtTables)}
PtReplicaSet == {PtReplicas[i] : i \in 1..Len(PtReplicas)}

\* every (table, replica) pair of the batch
PtPairs == PtTableSet \X PtReplicaSet

\* the master's tables with or without primary key and foreign keys, and the
\* replicas as step 4 left them: the database exists, the schema and the
\* tables may
PtInputs ==
    {p \in [pc : {"pk"}, schema_name : {"dbo", "app"},
            pkless : SUBSET PtTableSet, has_fk : SUBSET PtTableSet,
            sch : SUBSET PtReplicaSet, present : SUBSET PtPairs,
            ti : {1}, ri : {1}, created : {{}}, visited : {{}},
            fk_scripts : {{}}, fk_tried : {{}}, error : {""}] :
        /\ (p.schema_name = "dbo") => (p.sch = PtReplicaSet)
        /\ \A x \in p.present : x[2] \in p.sch}

\* the foreign keys are applied once the loop over the tables has ended
FkPhaseReadyEarly(ti) == TRUE
FkPhaseReady(ti) == ti > Len(PtTables)

\* an exception leaves _process_tables_and_articles
PtRaise(error) == pt' = [pt EXCEPT !.pc = "raised", !.error = error]

\* get_primary_key answers [] for a table without primary key and for a
\* query that raised; `if not pk: raise RuntimeError(... missing primary key)`
PtValidatePrimaryKey ==
    /\ pt.pc = "pk"
    /\ \E raised \in BOOLEAN :
         IF raised \/ PtTables[pt.ti] \in pt.pkless
         THEN PtRaise("missing_pk")
         ELSE pt' = [pt EXCEPT !.pc = "replica", !.ri = 1]
    /\ UNCHANGED othersPt

\* the body of `for replica in replicas`: the guarded CREATE SCHEMA, then
\* table_exists (False when it raised) and, on False, CREATE TABLE, the
\* indexes and the storing of the FK scripts; any exception is logged and
\* raised
PtReplicaStep ==
    /\ pt.pc = "replica"
    /\ LET t == PtTables[pt.ti]
           r == PtReplicas[pt.ri]
           last == pt.ri = Len(PtReplicas)
           after == [pt EXCEPT !.pc = IF last THEN "article" ELSE "replica",
                               !.ri = IF last THEN @ ELSE @ + 1,
                               !.sch = @ \cup {r},
                               !.visited = @ \cup {<<t, r>>}]
       IN \/ PtRaise("create")
          \/ \E raised \in BOOLEAN :
               IF NeedsCreate(ProbeAnswer(<<t, r>> \in pt.present, raised))
               THEN IF <<t, r>> \in pt.present
                    THEN pt' = [pt EXCEPT !.pc = "raised", !.error = "create",
                                          !.sch = @ \cup {r},
                                          !.created = @ \cup {<<t, r>>}]
                    ELSE pt' = [after EXCEPT
                             !.present = @ \cup {<<t, r>>},
                             !.created = @ \cup {<<t, r>>},
                             !.fk_scripts = IF t \in pt.has_fk
                                            THEN @ \cup {<<t, r>>} ELSE @]
               ELSE pt' = after
    /\ UNCHANGED othersPt

\* add_article: it validates the primary key again, then adds the article;
\* every exception is raised
PtAddArticle ==
    /\ pt.pc = "article"
    /\ \/ PtRaise("missing_pk")
       \/ PtRaise("article")
       \/ pt' = [pt EXCEPT !.pc = IF FkPhaseReady(pt.ti + 1) THEN "fk"
                                  ELSE "pk",
                           !.ti = Min(@ + 1, Len(PtTables)), !.ri = 1]
    /\ UNCHANGED othersPt

\* `for replica_name, fk_entries in fk_scripts_by_replica.items()`: one
\* stored ALTER TABLE ... FOREIGN KEY; a failure is a warning
PtApplyForeignKey ==
    /\ pt.pc = "fk"
    /\ IF pt.fk_scripts = {}
       THEN pt' = [pt EXCEPT !.pc = "done"]
       ELSE \E x \in pt.fk_scripts :
              pt' = [pt EXCEPT !.fk_scripts = @ \ {x},
                               !.fk_tried = @ \cup {x}]
    /\ UNCHANGED othersPt

TablesInit ==
    /\ SyncInit(OneReplica, DefaultSchemas)
    /\ rx = rxIdle /\ sp = spIdle /\ tp = tpIdle /\ mg = mgIdle
    /\ bs = bsIdle /\ pt \in PtInputs /\ cf = cfIdle /\ fn = fnIdle

TablesNext ==
    \/ PtValidatePrimaryKey
    \/ PtReplicaStep
    \/ PtAddArticle
    \/ PtApplyForeignKey

TablesSpec == TablesInit /\ [][TablesNext]_vars


(***************************************************************************)
(* self.config of the pooled manager.  The monitoring thread reloads it    *)
(* when the configuration file has changed; a caller thread inside         *)
(* execute_query_with_retry reads it once per value.  A generation number  *)
(* stands for the content of the file and of the dict loaded from it.      *)
(***************************************************************************)
\* the edits of the configuration file that are followed
MaxReloads == 2

\* the values one execute_query_with_retry call reads from self.config, in
\* the order of the reads: retry_attempts (line 205), retry_delay_seconds
\* (206) and, in get_connection_string, connection_timeout (154)
ConfigReads == <<"retry_attempts", "retry_delay_seconds", "connection_timeout">>

CfInputs ==
    [pc      : {"on"},
     file    : {0},           \* the generation of the file on disk
     config  : {0},           \* the generation self.config was loaded from
     last_config_hash : {0},  \* the generation whose hash was stored
     running : {TRUE},        \* set by _start_monitoring_thread
     mpc     : {"test"},      \* monitor_replication: "test" | "check" |
                              \*   "compare" | "sleep" | "exited"
     current_hash : {0},      \* the local of check_config_changes
     checked : {None},        \* the last finished check_config_changes:
                              \*   the hash it computed,
     attempted : {FALSE},     \*   whether it called load_config,
     ret     : {FALSE},       \*   and what it returned
     xpc     : {0},           \* the caller: reads made by the call in hand
     seen    : {<<>>}]        \* the generation each of them saw

\* somebody edits the configuration file
CfFileEdited ==
    /\ cf.pc = "on"
    /\ cf.file < MaxReloads
    /\ cf' = [cf EXCEPT !.file = @ + 1]
    /\ UNCHANGED othersCf

\* monitor_replication: `while self.running`
CfMonitorTest ==
    /\ cf.pc = "on"
    /\ cf.mpc = "test"
    /\ cf' = [cf EXCEPT !.mpc = IF cf.running THEN "check" ELSE "exited"]
    /\ UNCHANGED othersCf

\* check_config_changes: current_hash = self._get_config_hash(), which reads
\* the file
CfGetConfigHash ==
    /\ cf.pc = "on"
    /\ cf.mpc = "check"
    /\ cf' = [cf EXCEPT !.current_hash = cf.file, !.mpc = "compare"]
    /\ UNCHANGED othersCf

\* a handler that remembers the hash whether load_config raised or not
HashAfterLoadAlways(loaded, current_hash, last) == current_hash

\* self.last_config_hash after the try block: assigned after load_config
\* has returned, not when it raised
HashAfterLoad(loaded, current_hash, last) == IF loaded THEN current_hash ELSE last

\* check_config_changes from its `if`: when the hash differs from the stored
\* one, self.config = self.load_config(), which reads the file again, and
\* the hash is stored; a load_config that raises is logged
CfCheckConfigChanges ==
    /\ cf.pc = "on"
    /\ cf.mpc = "compare"
    /\ IF cf.current_hash # cf.last_config_hash
       THEN \E loaded \in BOOLEAN :
                cf' = [cf EXCEPT !.config = IF loaded THEN cf.file ELSE @,
                                 !.last_config_hash =
                                     HashAfterLoad(loaded, cf.current_hash, @),
                                 !.checked = cf.current_hash,
                                 !.attempted = TRUE,
                                 !.ret = loaded,
                                 !.mpc = "sleep"]
       ELSE cf' = [cf EXCEPT !.checked = cf.current_hash,
                             !.attempted = FALSE,
                             !.ret = FALSE,
                             !.mpc = "sleep"]
    /\ UNCHANGED othersCf

\* monitor_replication: time.sleep(60) returns
CfMonitorWake ==
    /\ cf.pc = "on"
    /\ cf.mpc = "sleep"
    /\ cf' = [cf EXCEPT !.mpc = "test"]
    /\ UNCHANGED othersCf

\* execute_query_with_retry and its get_connection_string: the next read of
\* self.config; each read takes the dict that self.config names at that moment
CfRead ==
    /\ cf.pc = "on"
    /\ cf.xpc < Len(ConfigReads)
    /\ cf' = [cf EXCEPT !.xpc = @ + 1, !.seen = Append(@, cf.config)]
    /\ UNCHANGED othersCf

\* the call returns; the next call of the caller starts
CfReturn ==
    /\ cf.pc = "on"
    /\ cf.xpc = Len(ConfigReads)
    /\ cf' = [cf EXCEPT !.xpc = 0, !.seen = <<>>]
    /\ UNCHANGED othersCf

\* stop(): self.running = False
CfStop ==
    /\ cf.pc = "on"
    /\ cf.running
    /\ cf' = [cf EXCEPT !.running = FALSE]
    /\ UNCHANGED othersCf

ReloadInit ==
    /\ SyncInit(OneReplica, DefaultSchemas)
    /\ rx = rxIdle /\ sp = spIdle /\ tp = tpIdle /\ mg = mgIdle
    /\ bs = bsIdle /\ pt = ptIdle /\ cf \in CfInputs /\ fn = fnIdle

ReloadNext ==
    \/ CfFileEdited
    \/ CfMonitorTest
    \/ CfGetConfigHash
    \/ CfCheckConfigChanges
    \/ CfMonitorWake
    \/ CfRead
    \/ CfReturn
    \/ CfStop

ReloadSpec == ReloadInit /\ [][ReloadNext]_vars


(***************************************************************************)
(* The staging loop of _merge_data on its own: a fetched DataFrame is      *)
(* converted to tuples and sent to the temporary table slice by slice, for *)
(* any batch_size of at least 1.                                           *)
(***************************************************************************)
\* the longest DataFrame and the largest batch_size that are followed
MaxRows == 3
MaxBatch == 3

\* the missing value of a DataFrame cell (what pd.isna answers True for)
NaN == -2

\* a fetched row: its key and one nullable column
FrameRows == [k : Keys, v : {1, NaN}]

\* every DataFrame of at most n rows
FramesUpTo(n) == UNION {[1..m -> FrameRows] : m \in 0..n}

\* tuple(None if pd.isna(val) else val for val in row)
ToTuple(row) == [row EXCEPT !.v = IF @ = NaN THEN None ELSE @]

\* a conversion that leaves out the rows with a missing value
DataTuplesSkippingNa(df) == LET kept == SelectSeq(df, LAMBDA row : row.v # NaN) IN [j \in 1..Len(kept) |-> ToTuple(kept[j])]

\* data_tuples = [tuple(...) for _, row in data.iterrows()]
DataTuples(df) == [j \in 1..Len(df) |-> ToTuple(df[j])]

StInputs ==
    [pc   : {"call"},
     df   : FramesUpTo(MaxRows),   \* the data argument
     size : 1..MaxBatch,           \* replication.batch_size
     data_tuples : {<<>>},
     i    : {0},                   \* the loop variable
     sent : {<<>>}]                \* the batches given to executemany, in order

\* `if data.empty: return`, else the statements up to the conversion
StConvert ==
    /\ fn.pc = "call"
    /\ fn' = IF fn.df = <<>>
             THEN [fn EXCEPT !.pc = "returned"]
             ELSE [fn EXCEPT !.pc = "insert", !.data_tuples = DataTuples(fn.df)]
    /\ UNCHANGED othersFn

\* `for i in range(0, len(data_tuples), batch_size)`: one executemany
StInsertBatch ==
    /\ fn.pc = "insert"
    /\ fn.i < Len(fn.data_tuples)
    /\ fn' = [fn EXCEPT !.sent = Append(@, Slice(fn.data_tuples, fn.i, fn.size)),
                        !.i = @ + fn.size]
    /\ UNCHANGED othersFn

\* the range is exhausted: the MERGE statement follows
StLoopEnd ==
    /\ fn.pc = "insert"
    /\ fn.i >= Len(fn.data_tuples)
    /\ fn' = [fn EXCEPT !.pc = "merge"]
    /\ UNCHANGED othersFn

StageInit ==
    /\ SyncInit(OneReplica, DefaultSchemas)
    /\ rx = rxIdle /\ sp = spIdle /\ tp = tpIdle /\ mg = mgIdle
    /\ bs = bsIdle /\ pt = ptIdle /\ cf = cfIdle /\ fn \in StInputs

StageNext == StConvert \/ StInsertBatch \/ StLoopEnd

StageSpec == StageInit /\ [][StageNext]_vars


(***************************************************************************)
(* build_create_table_script: the CREATE TABLE statement of a table from   *)
(* its INFORMATION_SCHEMA column rows and its primary key columns.         *)
(* A value that may be None is a sequence: <<>> for None, <<v>> for v.     *)
(***************************************************************************)
\* the longest column list that is followed
MaxCols == 2

\* the rows of the column query, by data type: COLUMN_NAME, DATA_TYPE,
\* CHARACTER_MAXIMUM_LENGTH, NUMERIC_PRECISION, NUMERIC_SCALE, IS_NULLABLE,
\* IS_IDENTITY, COLUMN_DEFAULT
IntColumns ==
    [name : {"ID"}, dtype : {"int"}, max_len : {<<>>}, precision : {<<10>>},
     scale : {<<0>>}, is_nullable : {"YES", "NO"}, is_identity : {0, 1},
     default : {<<>>, <<"(getdate())">>}]
CharColumns ==
    [name : {"Name"}, dtype : {"nvarchar"}, max_len : {<<>>, <<-1>>, <<100>>},
     precision : {<<>>}, scale : {<<>>}, is_nullable : {"YES", "NO"},
     is_identity : {0}, default : {<<>>}]
DecimalColumns ==
    [name : {"Price"}, dtype : {"decimal"}, max_len : {<<>>},
     precision : {<<18>>}, scale : {<<>>, <<2>>}, is_nullable : {"YES", "NO"},
     is_identity : {0}, default : {<<>>}]
    \cup [name : {"Price"}, dtype : {"decimal"}, max_len : {<<>>},
          precision : {<<>>}, scale : {<<>>}, is_nullable : {"YES", "NO"},
          is_identity : {0}, default : {<<>>}]
ColumnRows == IntColumns \cup CharColumns \cup DecimalColumns

\* the answers of get_primary_key
PkColumnLists == {<<>>, <<"ID">>, <<"Name", "ID">>}

\* int(time.time()) at two calls a second apart
Seconds == {1700000000, 1700000001}

\* sep.join(parts)
RECURSIVE Join(_, _)
Join(sep, parts) ==
    IF parts = <<>> THEN ""
    ELSE IF Len(parts) = 1 THEN parts[1]
    ELSE parts[1] \o sep \o Join(sep, Tail(parts))

\* a length rendering that writes the number whatever it is
CharLengthVerbatim(max_len) == IF max_len = <<>> THEN "max" ELSE ToString(max_len[1])

\* `if max_len == -1 or max_len is None`: "max", else the number
CharLength(max_len) == IF max_len = <<>> \/ max_len = <<-1>> THEN "max" ELSE ToString(max_len[1])

\* `scale or 0`
ScaleOrZero(scale) == IF scale = <<>> \/ scale = <<0>> THEN 0 ELSE scale[1]

\* typ of one column
Typ(col) ==
    IF col.dtype \in {"varchar", "nvarchar", "char", "nchar"}
    THEN col.dtype \o "(" \o CharLength(col.max_len) \o ")"
    ELSE IF col.dtype \in {"decimal", "numeric"}
    THEN IF col.precision = <<>>
         THEN col.dtype \o "(18,2)"
         ELSE col.dtype \o "(" \o ToString(col.precision[1]) \o ","
                  \o ToString(ScaleOrZero(col.scale)) \o ")"
    ELSE col.dtype

\* `if default:` for a default that is None, "" or an expression
Truthy(opt) == opt # <<>> /\ opt # <<"">>

\* col_line of one column
ColLine(col) ==
    "[" \o col.name \o "] " \o Typ(col)
        \o (IF col.is_identity = 1 THEN " IDENTITY(1,1)" ELSE "")
        \o (IF col.is_nullable = "YES" THEN " NULL" ELSE " NOT NULL")
        \o (IF Truthy(col.default) THEN " DEFAULT " \o col.default[1] ELSE "")

\* [f"[{c}]" for c in names]
Bracketed(names) == [j \in 1..Len(names) |-> "[" \o names[j] \o "]"]

\* pk_constraint_name at the clock's second
PkConstraintName(schema, table, second) ==
    "PK_" \o schema \o "_" \o table \o "_" \o ToString(second)

\* pk_sql
PkSql(pk_columns, schema, table, second) ==
    IF pk_columns = <<>> THEN ""
    ELSE ", CONSTRAINT [" \o PkConstraintName(schema, table, second)
             \o "] PRIMARY KEY (" \o Join(",", Bracketed(pk_columns)) \o ")"

\* col_defs
ColDefs(columns) == [j \in 1..Len(columns) |-> ColLine(columns[j])]

\* create_sql
CreateSql(col_defs, pk_sql, schema, table) ==
    "CREATE TABLE [" \o schema \o "].[" \o table \o "] ("
        \o Join(", ", col_defs) \o pk_sql \o ")"

\* every column list of at most n columns
ColumnListsUpTo(n) == UNION {[1..m -> ColumnRows] : m \in 0..n}

BcInputs ==
    [pc : {"call"},
     columns : ColumnListsUpTo(MaxCols),
     pk_columns : PkColumnLists,
     schema : {"dbo"},
     table : {"TestTable"},
     col_defs : {<<>>},      \* the local of the last call
     pk_sql : {""},          \* the local of the last call
     first : {""},           \* what the first call returned
     create_sql : {""}]      \* what the last call returned

\* one call of build_create_table_script on the arguments in hand when the
\* clock shows `second`
BuildCreateTableScript(second, next) ==
    LET col_defs == ColDefs(fn.columns)
        pk_sql == PkSql(fn.pk_columns, fn.schema, fn.table, second)
    IN /\ fn' = [fn EXCEPT !.pc = next,
                           !.col_defs = col_defs,
                           !.pk_sql = pk_sql,
                           !.first = fn.create_sql,
                           !.create_sql = CreateSql(col_defs, pk_sql,
                                                    fn.schema, fn.table)]
       /\ UNCHANGED othersFn

BcFirstCall ==
    /\ fn.pc = "call"
    /\ \E second \in Seconds : BuildCreateTableScript(second, "again")

\* the same arguments once more, at the same second or later
BcSecondCall ==
    /\ fn.pc = "again"
    /\ \E second \in Seconds : BuildCreateTableScript(second, "returned")

BuildInit ==
    /\ SyncInit(OneReplica, DefaultSchemas)
    /\ rx = rxIdle /\ sp = spIdle /\ tp = tpIdle /\ mg = mgIdle
    /\ bs = bsIdle /\ pt = ptIdle /\ cf = cfIdle /\ fn \in BcInputs

BuildNext == BcFirstCall \/ BcSecondCall

BuildSpec == BuildInit /\ [][BuildNext]_vars


(***************************************************************************)
(* build_fk_script: the ALTER TABLE statement of one foreign key row.      *)
(* A column list is a string of comma separated names; it is followed      *)
(* character by character, so that split and strip do what they do.        *)
(***************************************************************************)
\* the column lists of a foreign key row: None, "", " ", ",", ", ,", "a"
\* and " a ,b"
ColumnTexts ==
    {<<>>, << <<>> >>, << <<" ">> >>, << <<",">> >>, << <<",", " ", ",">> >>,
     << <<"a">> >>, << <<" ", "a", " ", ",", "b">> >>}

\* the rows handed to build_fk_script: five fields, or a row of four items
FkRows ==
    [len : {5},
     name : {<<>>, <<"">>, <<"FK_T_C">>},
     ref_schema : {<<>>, <<"dbo">>},
     ref_table : {<<>>, <<"Categories">>},
     ref_cols : ColumnTexts,
     key_cols : ColumnTexts]
    \cup [len : {4}, name : {<<"FK_T_C">>}, ref_schema : {<<"dbo">>},
          ref_table : {<<"Categories">>}, ref_cols : {<< <<"a">> >>},
          key_cols : {<<>>}]

\* text.split(','): the pieces between the commas, empty ones included
RECURSIVE Split(_)
Split(text) ==
    IF \A j \in 1..Len(text) : text[j] # ","
    THEN <<text>>
    ELSE LET at == CHOOSE j \in 1..Len(text) :
                       text[j] = "," /\ \A h \in 1..(j - 1) : text[h] # ","
         IN <<SubSeq(text, 1, at - 1)>> \o Split(SubSeq(text, at + 1, Len(text)))

\* c.strip(): without the blanks at either end
RECURSIVE Strip(_)
Strip(c) ==
    IF c = <<>> THEN c
    ELSE IF Head(c) = " " THEN Strip(Tail(c))
    ELSE IF c[Len(c)] = " " THEN Strip(SubSeq(c, 1, Len(c) - 1))
    ELSE c

\* a filter that keeps every piece
KeptAlways(c) == TRUE

\* `if c.strip()` of the comprehension
Kept(c) == Strip(c) # <<>>

\* ','.join([f"[{c.strip()}]" for c in text.split(',') if c.strip()])
ColsFormatted(text) ==
    LET kept == SelectSeq(Split(text), Kept)
    IN Join(",", [j \in 1..Len(kept) |-> "[" \o Join("", Strip(kept[j])) \o "]"])

\* `name, ref_schema, ref_table, ref_cols, key_cols = fk_row` raises
UnpackRaises(fk_row) == fk_row.len # 5

\* all([name, ref_schema, ref_table, ref_cols, key_cols])
AllFields(fk_row) ==
    /\ Truthy(fk_row.name) /\ Truthy(fk_row.ref_schema)
    /\ Truthy(fk_row.ref_table)
    /\ fk_row.ref_cols # <<>> /\ fk_row.ref_cols # << <<>> >>
    /\ fk_row.key_cols # <<>> /\ fk_row.key_cols # << <<>> >>

\* what build_fk_script returns: <<>> for None, else the statement
BuildFkScript(fk_row, schema, table) ==
    IF UnpackRaises(fk_row) THEN <<>>      \* caught, warning logged
    ELSE IF ~AllFields(fk_row) THEN <<>>
    ELSE LET key_cols_formatted == ColsFormatted(fk_row.key_cols[1])
             ref_cols_formatted == ColsFormatted(fk_row.ref_cols[1])
         IN IF key_cols_formatted # "" /\ ref_cols_formatted # ""
            THEN <<"ALTER TABLE [" \o schema \o "].[" \o table
                     \o "] ADD CONSTRAINT [" \o fk_row.name[1]
                     \o "] FOREIGN KEY (" \o key_cols_formatted
                     \o ") REFERENCES [" \o fk_row.ref_schema[1] \o "].["
                     \o fk_row.ref_table[1] \o "] (" \o ref_cols_formatted
                     \o ");">>
            ELSE <<>>

FkInputs ==
    [pc : {"call"},
     fk_row : FkRows,
     schema : {"dbo"},
     table : {"TestTable"},
     warned : {FALSE},       \* logger.warning of the except branch
     result : {<<>>}]

\* one call of build_fk_script
FkCall ==
    /\ fn.pc = "call"
    /\ fn' = [fn EXCEPT !.pc = "returned",
                        !.warned = UnpackRaises(fn.fk_row),
                        !.result = BuildFkScript(fn.fk_row, fn.schema, fn.table)]
    /\ UNCHANGED othersFn

FkInit ==
    /\ SyncInit(OneReplica, DefaultSchemas)
    /\ rx = rxIdle /\ sp = spIdle /\ tp = tpIdle /\ mg = mgIdle
    /\ bs = bsIdle /\ pt = ptIdle /\ cf = cfIdle /\ fn \in FkInputs

FkNext == FkCall

FkSpec == FkInit /\ [][FkNext]_vars


(***************************************************************************)
(* A deployment whose second table has replicate = false: the bootstrap of *)
(* the replica and the sync cycles, in any order.                          *)
(***************************************************************************)
\* the table of the bootstrap that stands for a unit
BsTableOf(u) == IF u = "u1" THEN "t1" ELSE "t2"

SkipInit ==
    /\ SyncInit(OneReplica, SkippedUnitSchemas)
    /\ rx = rxIdle /\ sp = spIdle /\ tp = tpIdle /\ mg = mgIdle
    /\ bs \in BsInputsWith({BsTableOf(u) : u \in {v \in Units : Replicated(v)}})
    /\ pt = ptIdle /\ cf = cfIdle /\ fn = fnIdle

SkipNext == CycleNext \/ BootNext

SkipSpec == SkipInit /\ [][SkipNext]_vars

(***************************************************************************)
(* Properties.                                                             *)
(***************************************************************************)
\* replication.replicate_deletes as configured (it defaults to False);
\* _sync_table_full never reads it
replicate_deletes == FALSE

\* worker r holds a fetched batch that went through the MERGE statement
Merged(r) ==
    \/ pc[r] \in {"drop", "identity_off"}
    \/ pc[r] = "setwm" /\ data[r] # <<>>

\* the keys of the batch worker r fetched for table u in the attempt in hand
BatchKeys(r, u) ==
    IF pc[r] \in MergePcs \cup {"setwm"} /\ CurUnit(r) = u
    THEN KeysOf(RowsOf(data[r]))
    ELSE {}

\* C1: once the MERGE of a fetched batch has succeeded, the replica table holds
\* exactly one row for every key of the batch, and that row carries the
\* batch's values in every non-key column.
C1_MergeUpserts ==
    \A r \in Replicas :
        Merged(r) =>
            \A i \in 1..Len(data[r]) :
                {x \in replica[r][CurUnit(r)] : x.k = data[r][i].k} = {data[r][i]}

\* C1 witness: an incremental merge succeeded on a batch with the keys 1 and 2;
\* key 2 was on the replica with older values (updated), key 1 was not (inserted).
C1_Witness ==
    /\ pc["r1"] = "drop"
    /\ CurUnit("r1") = "u1"
    /\ KeysOf(RowsOf(data["r1"])) = {1, 2}
    /\ Row(2, 0, 0) \notin replica["r1"]["u1"]

\* C2: in incremental mode no step deletes or changes a replica row whose key
\* is outside the batch fetched by the attempt in hand.
C2_IncrementalFrame ==
    [][\A r \in Replicas, u \in Units :
          SyncMode(u) = "incremental" =>
              \A x \in replica[r][u] :
                  x.k \notin BatchKeys(r, u) => x \in replica'[r][u]]_vars

\* C2 witness: an incremental merge has run while the replica table holds a row
\* whose key is not in the batch.
C2_Witness ==
    /\ pc["r1"] = "drop"
    /\ SyncMode(CurUnit("r1")) = "incremental"
    /\ \E x \in replica["r1"][CurUnit("r1")] : x.k \notin KeysOf(RowsOf(data["r1"]))

\* C3: with replicate_deletes unset, no step of a full-mode attempt removes a
\* row (a key) from the replica table.
C3_FullKeepsRowsWithoutFlag ==
    [][\A r \in Replicas, u \in Units :
          (SyncMode(u) = "full" /\ ~replicate_deletes) =>
              KeysOf(replica[r][u]) \subseteq KeysOf(replica'[r][u])]_vars

\* C4: the watermark of a (unit, replica) pair changes only in the step that
\* ends a successful attempt of that replica on that unit.
C4_WatermarkOnlyOnOwnSuccess ==
    [][\A r \in Configured, u \in Units :
          last_sync_times'[TableKey(u, r)] # last_sync_times[TableKey(u, r)] =>
              /\ pc[r] = "setwm"
              /\ CurUnit(r) = u
              /\ outcome'[r][u] = "done"]_vars

\* C5: a step of the worker of one replica never changes the watermark that
\* another replica endpoint reads for its next incremental fetch.
C5_WatermarkPerEndpoint ==
    [][\A r1 \in Configured, r2 \in Configured, u \in Units :
          (r1 # r2 /\ replica_configs[r1] # replica_configs[r2]
             /\ pc'[r1] # pc[r1] /\ pc'[r2] = pc[r2]) =>
              last_sync_times'[TableKey(u, r2)] = last_sync_times[TableKey(u, r2)]]_vars

C7_StagingDropped ==
    \A r \in Replicas : pc[r] \notin MergePcs => ~temp_table[r]

\* C8: outside _merge_data IDENTITY_INSERT is off: every attempt that switched
\* it on has switched it off when it ends.
C8_IdentityInsertOff ==
    \A r \in Replicas : pc[r] \notin MergePcs => ~identity_insert[r]

\* C9: a failure inside _merge_data (staging or merging) ends only the attempt
\* of that (unit, replica) pair: the other workers and the other units'
\* outcomes are untouched, the worker goes on with its next table, and a
\* worker whose setup succeeded finishes the cycle with every unit attempted.
C9_FailureIsolated ==
    [][/\ \A r \in Configured :
             (pc[r] \in MergePcs /\ outcome'[r][CurUnit(r)] = "merge_failed") =>
                 /\ pc'[r] = NextUnitPc(cur[r])
                 /\ \A u \in Units \ {CurUnit(r)} : outcome'[r][u] = outcome[r][u]
                 /\ \A r2 \in Configured \ {r} :
                        /\ pc'[r2] = pc[r2]
                        /\ cur'[r2] = cur[r2]
                        /\ outcome'[r2] = outcome[r2]
                        /\ data'[r2] = data[r2]
       /\ \A r \in Configured :
             pc'[r] = "finished" => \A u \in Units : outcome'[r][u] # "pending"
       /\ (phase = "running" /\ phase' = "idle") =>
             \A r \in Configured, u \in Units : outcome[r][u] # "pending"]_vars

\* C9 witness: a cycle completed in which the merge of (u1, r1) failed and the
\* three other pairs were synchronized.
C9_Witness ==
    /\ phase = "idle"
    /\ ticks = 1
    /\ outcome["r1"]["u1"] = "merge_failed"
    /\ outcome["r1"]["u2"] = "done"
    /\ outcome["r2"]["u1"] = "done"
    /\ outcome["r2"]["u2"] = "done"

\* C10: on an endpoint where every attempt fails, a finished call has raised
\* after exactly retry_attempts attempts; it has not returned normally.
C10_ExhaustedRetriesRaise ==
    (rx.pc \in {"returned", "raised"} /\ rx.params_ok /\ rx.down) =>
        (rx.pc = "raised" /\ rx.tries = rx.n)

\* C11: the waits of an exhausted call sum to
\* retry_delay * (1 + 2 + ... + (retry_attempts - 1)), whatever the class of
\* the errors that failed its attempts.
C11_LinearBackoffEveryClass ==
    (rx.pc = "raised" /\ rx.error # "ValueError") =>
        rx.waited = retry_delay * ((rx.n * (rx.n - 1)) \div 2)

\* C12: after a failed attempt, whatever the class of its error, the pool
\* holds no connection for the endpoint when the next attempt starts, and no
\* retry runs on a connection taken from the pool.
C12_EvictedAfterAnyFailure ==
    /\ (rx.pc = "loop" /\ rx.error # "none") => rx.pool = "none"
    /\ (rx.pc = "execute" /\ rx.attempt > 0) => rx.conn # "pooled"

\* C13: get_connection returns the pooled connection only when it answered
\* the probe of this call; after a failed probe the dead connection is out of
\* the pool, and the connection returned is a new one, pooled under the key.
C13_ProbedBeforeReturn ==
    /\ (rx.pc = "execute" /\ rx.conn = "pooled") =>
           (rx.probe = "passed" /\ rx.pool = "live" /\ ~rx.down)
    /\ (rx.pc = "execute" /\ rx.probe = "failed") =>
           (rx.conn = "new" /\ rx.pool = "live")
    /\ rx.probe = "failed" => rx.pool # "dead"

\* C13 witness: the pooled connection was dead, the probe failed, and the call
\* holds a newly opened connection.
C13_Witness ==
    /\ rx.pc = "execute"
    /\ rx.probe = "failed"
    /\ rx.conn = "new"

\* C14: no connection of the pool is in use (probed or executing a statement)
\* by two workers at the same time.
C14_NoSharedConnection ==
    \A w1 \in SetupWorkers, w2 \in SetupWorkers :
        (/\ w1 # w2
         /\ sp.wpc[w1] \in {"probe", "execute"}
         /\ sp.wpc[w2] \in {"probe", "execute"}) => sp.held[w1] # sp.held[w2]

C16_StepsSequential ==
    [][\A r \in Replicas :
          /\ (temp_table'[r] /\ ~temp_table[r]) =>
                 (pc[r] = "create_temp" /\ data[r] # <<>> /\ data'[r] = data[r]
                    /\ staged[r] = <<>> /\ ~merge_issued[r])
          /\ (staged'[r] # staged[r] /\ staged'[r] # <<>>) =>
                 (pc[r] = "insert" /\ temp_table[r] /\ data'[r] = data[r]
                    /\ ~merge_issued[r]
                    /\ RowsOf(staged'[r]) \subseteq RowsOf(data[r]))
          /\ (merge_issued'[r] /\ ~merge_issued[r]) =>
                 (pc[r] = "merge" /\ staged[r] = data[r] /\ temp_table[r])]_vars

\* C16 witness: a batch of two rows was fetched and staged in two slices; the
\* attempt is about to issue the MERGE.
C16_Witness ==
    /\ pc["r1"] = "merge"
    /\ Len(data["r1"]) = 2
    /\ staged["r1"] = data["r1"]

\* C17: the watermark map is written only by the coordinating thread, that
\* is, when no worker of the cycle is running.
C17_WatermarkWrittenByCoordinator ==
    [][last_sync_times' # last_sync_times =>
          \A r \in Configured : pc[r] \in {"idle", "finished"}]_vars

Stopped == mg.hpc # "off" /\ ~mg.running

\* C19: once the running flag is false no new cycle and no new health-check
\* round starts, the cycle in flight goes on to its end, and both loops
\* terminate.
C19_StopHonoured ==
    /\ [][Stopped =>
             /\ mg'.pc = "cycle" => mg.pc = "cycle"
             /\ mg'.hpc = "round" => mg.hpc = "round"
             /\ mg.pc = "cycle" => mg'.pc \in {"cycle", "sleep", "loop", "drain"}]_vars
    /\ (Stopped ~> (mg.pc = "exited" /\ mg.hpc = "exited"))

\* C19 witness: stop() was called while a cycle and a health-check round are
\* in flight.
C19_Witness ==
    /\ Stopped
    /\ mg.pc = "cycle"
    /\ mg.hpc = "round"

\* C20: start() exits the process only from the startup connection tests,
\* before any replica setup and before any sync cycle.
C20_OnlyValidationIsFatal ==
    mg.pc = "exit1" =>
        (mg.exit_in = "test" /\ mg.setup_i = 0 /\ mg.cycles = 0)


\* C21: when _setup_replica_database runs a second time on a replica after a
\* first run that completed, and nothing has failed in either run, the second
\* run reaches no CREATE DATABASE, CREATE SCHEMA or CREATE TABLE step and has
\* executed no such statement.
C21_BootstrapIdempotent ==
    (bs.pc # "off" /\ bs.run = 2 /\ bs.clean1 /\ ~bs.failed)
        => (bs.pc \notin BsCreatePcs /\ bs.ddl = {})

\* a second run completed without a statement after a first run that created
\* the database, the schema and both tables
C21_Witness ==
    /\ bs.pc = "done" /\ bs.run = 2 /\ bs.clean1 /\ ~bs.failed
    /\ bs.ddl1 = {"db", "schema", "t1", "t2"}
    /\ bs.ddl = {}

\* C22: a CREATE TABLE that fails for one table does not end the bootstrap:
\* when the run has ended on that failure, every configured table has been
\* visited.
C22_TableFailureSkipped ==
    (bs.pc = "raised" /\ bs.raised_in = "table_create")
        => bs.visited = {BsTables[i] : i \in 1..Len(BsTables)}

\* C26: a probe answers 'absent' only for an object that is absent: a CREATE
\* step is reached only for a database, schema or table the replica lacks.
C26_AbsentMeansAbsent ==
    /\ bs.pc = "db_create" => ~bs.db
    /\ bs.pc = "schema_create" => ~bs.sch
    /\ bs.pc = "table_create" => BsTables[bs.ti] \notin bs.tables

\* C23: the primary-key check comes before any DDL: when a table is reported
\* as missing its primary key, no CREATE TABLE has been executed on any
\* replica.
C23_KeyCheckedBeforeDdl ==
    (pt.pc = "raised" /\ pt.error = "missing_pk"
        /\ PtTables[pt.ti] \in pt.pkless) => pt.created = {}

\* C24: a foreign-key statement has been executed on a replica only when the
\* CREATE TABLE step was carried out for every table of the batch on every
\* replica.
C24_ForeignKeysAfterAllTables ==
    (pt.pc # "off" /\ pt.fk_tried # {}) => pt.visited = PtPairs

\* the foreign keys of two tables created on both replicas were applied
C24_Witness ==
    /\ pt.pc = "done"
    /\ pt.created = PtPairs
    /\ pt.fk_tried = PtPairs

\* C25: a table configured for incremental sync without a timestamp column is
\* never accepted and left unsynchronized: its attempt either goes on to
\* fetch the rows of the primary (a full sync) or ends as a failure.
C25_NoTimestampStillSynced ==
    [][\A r \in Configured :
         (/\ pc[r] = "check"
          /\ SyncMode(CurUnit(r)) = "incremental"
          /\ ~HasTimestampColumn(CurUnit(r))
          /\ <<pc'[r], cur'[r]>> # <<pc[r], cur[r]>>)
             => (pc'[r] = "fetch" \/ outcome'[r][CurUnit(r)] = "failed")]_vars

\* the outcomes of a (table, replica) attempt that did not synchronize
FailedOutcomes == {"failed", "merge_failed", "setup_failed"}

\* nothing fails for worker r1 in cycle n
CleanCycle(n) ==
    (ticks = n /\ phase = "running")
        => \A u \in Units : outcome["r1"][u] \notin FailedOutcomes

\* C27: a (table, replica) pair whose attempt failed in one cycle is attempted
\* again in the next cycle, and when nothing fails in that cycle the pair is
\* synchronized there.
C27_FailedPairRetried ==
    \A n \in 0..(MaxCycles - 2), u \in Units :
        [](CleanCycle(n + 1)) =>
            ((ticks = n /\ phase = "running"
                /\ outcome["r1"][u] \in FailedOutcomes)
             ~> (ticks = n + 1 /\ phase = "running"
                /\ outcome["r1"][u] = "done"))

\* in the second cycle the worker has merged table u1 and is about to set a
\* watermark that the first cycle, having failed, never set
C27_Witness ==
    /\ ticks = 1 /\ phase = "running"
    /\ pc["r1"] = "setwm" /\ CurUnit("r1") = "u1"
    /\ Watermark("u1", "r1") = DatetimeMin

\* C28: after close_all_connections, and so after stop(), the connection pool
\* is empty, close() has been called on every connection that was in the
\* pool, also when the close() of one of them raised, and every one whose
\* close() returned is closed.
C28_PoolReleased ==
    sp.pc = "stopped" =>
        /\ \A k \in PoolKeys : sp.pool[k] = 0
        /\ ~sp.running
        /\ sp.at_stop \subseteq sp.close_called
        /\ (sp.at_stop \ sp.close_raised) \subseteq sp.closed

\* stop() found several pooled connections, the close() of one raised and
\* the others were closed all the same
C28_Witness ==
    /\ sp.pc = "stopped"
    /\ Cardinality(sp.at_stop) >= 3
    /\ sp.close_raised # {}
    /\ sp.at_stop \ sp.close_raised # {}
    /\ sp.at_stop \subseteq sp.close_called

\* C29: a call that started under one generation of the configuration reads
\* that generation only: all the values one execute_query_with_retry call has
\* read from self.config come from the same generation.
C29_OneGenerationPerCall ==
    cf.pc = "on" => \A i, j \in 1..Len(cf.seen) : cf.seen[i] = cf.seen[j]

\* C30: a failed health check is logged and nothing more: the step that fails
\* a round leaves the main thread where it is (no exit, no change of the
\* running flag, of the cycle in hand or of its sleep) and takes the health
\* thread to its sleep, and after that sleep the next round runs unless the
\* manager has been stopped.
C30_HealthFailureOnlyLogged ==
    /\ [][(mg.hpc = "round" /\ mg'.hpc # "round" /\ mg'.health_failed)
            => /\ mg'.hpc = "sleep"
               /\ [mg' EXCEPT !.hpc = mg.hpc,
                              !.health_failed = mg.health_failed] = mg]_vars
    /\ ((mg.hpc = "sleep" /\ mg.health_failed)
            ~> (mg.hpc = "round" \/ ~mg.running))

\* a round runs after a round that failed, while a sync cycle is under way
C30_Witness ==
    /\ mg.hpc = "round"
    /\ mg.health_failed
    /\ mg.running
    /\ mg.pc = "cycle"

\* C36: incremental sync loses no change: when a cycle without failures has
\* ended, every row of the primary table that the replica does not hold is
\* still selected by the watermark filter of the next fetch.
C36_NoChangeLost ==
    (phase = "idle" /\ ticks >= 1 /\ outcome["r1"]["u1"] = "done")
        => \A x \in primary["u1"] :
             \/ x \in replica["r1"]["u1"]
             \/ WhereClause(x, Watermark("u1", "r1"))

\* C37: execute_query_with_retry never returns normally without having run
\* the statement to completion, for every retry_attempts argument and every
\* configured retry_attempts, 0 included.
C37_ReturnedMeansExecuted ==
    rx.pc = "returned" => rx.executed

\* C38: a full-mode attempt that ends in failure leaves the replica table
\* with the rows it held before the attempt; in the first cycle these are the
\* rows the replica started with.
C38_FailedFullSyncKeepsRows ==
    \A r \in Configured :
        (ticks = 0 /\ outcome[r]["u2"] \in FailedOutcomes)
            => replica[r]["u2"] = {Row(2, 0, 0)}

\* C35: after a process start every watermark is the beginning-of-time
\* sentinel, and an incremental fetch made under the sentinel returns every
\* row of the primary table.
C35_FirstFetchTakesEveryRow ==
    /\ (ticks = 0 /\ phase = "idle") =>
           \A key \in WatermarkKeys : last_sync_times[key] = DatetimeMin
    /\ [][\A r \in Configured :
            (/\ pc[r] = "fetch" /\ pc'[r] \in {"connect", "setwm"}
             /\ SyncMode(CurUnit(r)) = "incremental"
             /\ Watermark(CurUnit(r), r) = DatetimeMin)
                => RowsOf(data'[r]) = primary[CurUnit(r)]]_vars

\* the batches of a sequence of batches, concatenated in order
RECURSIVE Concatenated(_)
Concatenated(batches) ==
    IF batches = <<>> THEN <<>>
    ELSE Head(batches) \o Concatenated(Tail(batches))

\* C34: staging loses and duplicates no row: for every fetched batch and
\* every batch size of at least 1, each slice sent to the staging table has
\* between 1 and batch_size rows, the slices sent so far are the rows fetched
\* so far in order, and when the loop has ended they are all the fetched
\* rows, a row with a missing value among them with NULL in its place.
C34_StagingKeepsEveryRow ==
    fn.pc \in {"insert", "merge"} =>
        LET expected == [j \in 1..Len(fn.df) |->
                            [k |-> fn.df[j].k,
                             v |-> IF fn.df[j].v = NaN THEN None
                                   ELSE fn.df[j].v]]
        IN /\ \A b \in 1..Len(fn.sent) :
                 Len(fn.sent[b]) >= 1 /\ Len(fn.sent[b]) <= fn.size
           /\ Concatenated(fn.sent)
                = SubSeq(expected, 1, Min(fn.i, Len(expected)))
           /\ fn.pc = "merge" => Concatenated(fn.sent) = expected

\* three rows, one of them with a missing value, were staged in two slices
C34_Witness ==
    /\ fn.pc = "merge"
    /\ Len(fn.df) = 3
    /\ fn.size = 2
    /\ Len(fn.sent) = 2
    /\ \E j \in 1..3 : fn.df[j].v = NaN

\* C31: build_create_table_script is deterministic: two calls with identical
\* columns, primary key, schema and table return the same string, whatever
\* the time at which each call is made.
C31_SameInputsSameScript ==
    fn.pc = "returned" => fn.create_sql = fn.first

\* C32: for every column list the statement holds the columns in input
\* order, each as [name] type, then IDENTITY(1,1) exactly when the identity
\* flag is 1, then exactly one of NULL and NOT NULL, then DEFAULT expr
\* exactly when a default is present; a character type of length -1 is
\* written (max); a non-empty primary key adds one PRIMARY KEY constraint
\* with the key columns in the given order, an empty one adds nothing.
C32_ColumnsRendered ==
    fn.pc \in {"again", "returned"} =>
        LET TypeOf(c) ==
                CASE c.dtype = "int" -> "int"
                  [] c.dtype = "nvarchar" ->
                        IF c.max_len = <<100>> THEN "nvarchar(100)"
                        ELSE "nvarchar(max)"
                  [] c.dtype = "decimal" ->
                        IF c.precision = <<>> THEN "decimal(18,2)"
                        ELSE IF c.scale = <<2>> THEN "decimal(18,2)"
                        ELSE "decimal(18,0)"
            Line(c) ==
                "[" \o c.name \o "] " \o TypeOf(c)
                    \o (IF c.is_identity = 1 THEN " IDENTITY(1,1)" ELSE "")
                    \o (IF c.is_nullable = "YES" THEN " NULL" ELSE " NOT NULL")
                    \o (IF c.default = <<>> THEN ""
                        ELSE " DEFAULT " \o c.default[1])
            Key == CASE fn.pk_columns = <<>> -> ""
                     [] fn.pk_columns = <<"ID">> -> " PRIMARY KEY ([ID])"
                     [] fn.pk_columns = <<"Name", "ID">> ->
                            " PRIMARY KEY ([Name],[ID])"
        IN /\ Len(fn.col_defs) = Len(fn.columns)
           /\ \A j \in 1..Len(fn.columns) : fn.col_defs[j] = Line(fn.columns[j])
           /\ fn.pk_columns = <<>> => fn.pk_sql = ""
           /\ fn.pk_columns # <<>> =>
                 \E second \in Seconds :
                     fn.pk_sql = ", CONSTRAINT [PK_dbo_TestTable_"
                                     \o ToString(second) \o "]" \o Key
           /\ fn.create_sql = "CREATE TABLE [dbo].[TestTable] ("
                                \o Join(", ", fn.col_defs) \o fn.pk_sql \o ")"

\* an identity column with a default and an unbounded character column were
\* rendered under a two-column primary key
C32_Witness ==
    /\ fn.pc = "returned"
    /\ Len(fn.columns) = 2
    /\ fn.columns[1].is_identity = 1 /\ fn.columns[1].default # <<>>
    /\ fn.columns[2].max_len = <<-1>> /\ fn.columns[2].is_nullable = "YES"
    /\ fn.pk_columns = <<"Name", "ID">>
    /\ fn.col_defs = <<"[ID] int IDENTITY(1,1) NOT NULL DEFAULT (getdate())",
                       "[Name] nvarchar(max) NULL">>

\* C33: build_fk_script returns a statement only when the row has its five
\* fields, all present and non-empty, and both column lists hold at least
\* one name that is not blank; in every other case, a row that cannot be
\* unpacked included, the call returns None.
C33_NoPartialForeignKey ==
    fn.pc = "returned" =>
        LET row == fn.fk_row
            Present(f) == f # <<>> /\ f[1] # ""
            Listed(f) == f # <<>> /\ Len(f[1]) > 0
            HasName(f) == \E j \in 1..Len(f[1]) : f[1][j] \notin {",", " "}
        IN fn.result # <<>>
             <=> /\ row.len = 5
                 /\ Present(row.name) /\ Present(row.ref_schema)
                 /\ Present(row.ref_table)
                 /\ Listed(row.ref_cols) /\ Listed(row.key_cols)
                 /\ HasName(row.ref_cols) /\ HasName(row.key_cols)

\* a complete row with two local columns gave its statement
C33_Witness ==
    /\ fn.pc = "returned"
    /\ fn.fk_row.key_cols = << <<" ", "a", " ", ",", "b">> >>
    /\ fn.result = <<"ALTER TABLE [dbo].[TestTable] ADD CONSTRAINT [FK_T_C] FOREIGN KEY ([a],[b]) REFERENCES [dbo].[Categories] ([a]);">>

\* C39: check_config_changes leaves the manager as it was on error: a call
\* that finds the file changed and whose reload fails returns False with
\* self.config and the remembered hash untouched, and the next call that
\* finds the same content attempts the reload again; a call whose reload
\* succeeds remembers the hash it computed, and a following call that finds
\* the content that was hashed returns False without reloading.
C39_FailedReloadChangesNothing ==
    [][(cf.mpc = "compare" /\ cf'.mpc = "sleep") =>
          /\ ~cf'.ret => /\ cf'.config = cf.config
                         /\ cf'.last_config_hash = cf.last_config_hash
          /\ (cf.current_hash # cf.last_config_hash) => cf'.attempted
          /\ (cf.attempted /\ ~cf.ret /\ cf.current_hash = cf.checked)
                => cf'.attempted
          /\ cf'.ret => cf'.last_config_hash = cf.current_hash
          /\ (cf.ret /\ cf.current_hash = cf.checked)
                => ~cf'.ret /\ ~cf'.attempted]_vars

\* a call found the file changed, its reload failed, and it returned False
\* with the configuration and the hash of the generation before
C39_Witness ==
    /\ cf.pc = "on"
    /\ cf.mpc = "sleep"
    /\ cf.file = 1 /\ cf.checked = 1
    /\ cf.attempted /\ ~cf.ret
    /\ cf.last_config_hash = 0 /\ cf.config = 0

\* C40: a unit with replicate = false is never touched: whatever the
\* bootstraps and the cycles, no worker is at a fetch, a delete, a staging
\* or a merge step for it, nothing is logged or kept for it, its replica
\* table stays as it was, and the bootstrap neither probes nor creates its
\* table.
C40_UnreplicatedUntouched ==
    \A u \in Units :
        ~schemas[u].replicate =>
            /\ \A r \in Configured :
                  /\ (pc[r] \notin {"idle", "setup", "check", "finished"})
                        => CurUnit(r) # u
                  /\ outcome[r][u] \in {"pending", "setup_failed"}
                  /\ replica[r][u] = {Row(2, 0, 0)}
            /\ BsTableOf(u) \notin bs.ddl \cup bs.ddl1 \cup bs.visited
            /\ bs.pc = "table_create" => BsTables[bs.ti] # BsTableOf(u)

\* a cycle has synchronized u1 and passed over u2, and the second bootstrap
\* has ended after the first one created the table of u1 only
C40_Witness ==
    /\ ~schemas["u2"].replicate
    /\ phase = "idle" /\ ticks >= 1
    /\ outcome["r1"]["u1"] = "done"
    /\ outcome["r1"]["u2"] = "pending"
    /\ bs.pc = "done" /\ bs.run = 2
    /\ bs.ddl1 = {"db", "t1"}
    /\ "t2" \notin bs.tables
=============================================================================
